---- MODULE Spec2Model ----
(***************************************************************************)
(* State-machine model of the hex-grid exploration game (latest snapshot,  *)
(* src/unnamed/part_002): seeded xorshift generator, hex coordinates,      *)
(* rooms and hallways, the effect table, the draft generator, the          *)
(* move/draft state machine and the resource ledger.                       *)
(*                                                                         *)
(* Numbers: TLC integers are 32-bit signed, so the generator's 32-bit      *)
(* state is kept as a pair <<hi, lo>> of 16-bit halves.  Rarities are kept *)
(* in tenths (0.5 is 5) and the float comparisons are done on exact        *)
(* integers: float() = u / (2^32 - 1), so float() < 0.4 is                 *)
(* 10 * u < 4 * (2^32 - 1); the scan of randomRoomPurpose is RollSpent.    *)
(***************************************************************************)
EXTENDS Integers, Sequences, FiniteSets, TLC

(***************************************************************************)
(* Bounds of the exploration (not program constants).                      *)
(***************************************************************************)
\* plan "wide": inputs that change the world (a draft entry, a paid refresh, a move
\* into a revealed room, a debug addition, a newGame) explored in one run
MaxEffort == 3
\* enterLog counts enter() calls and effect invocations of a room up to MaxLog
MaxLog == 3
\* batches one refreshDrafts call may generate before it is reported as spinning
MaxBatches == 8

(***************************************************************************)
(* Directions and hex coordinates                                          *)
(***************************************************************************)
DIRECTION_VALUES ==
    <<"NORTH", "NORTH_EAST", "SOUTH_EAST", "SOUTH", "SOUTH_WEST", "NORTH_WEST">>

Directions == {DIRECTION_VALUES[i] : i \in 1..Len(DIRECTION_VALUES)}

Rows == 5
Cols == 13

Coords == [row : 0..(Rows - 1), col : 0..(Cols - 1)]

HEX_DIRECTIONS_ODD_Q ==
    [NORTH      |-> [row |-> -1, col |-> 0],
     NORTH_EAST |-> [row |-> 0,  col |-> 1],
     SOUTH_EAST |-> [row |-> 1,  col |-> 1],
     SOUTH      |-> [row |-> 1,  col |-> 0],
     SOUTH_WEST |-> [row |-> 1,  col |-> -1],
     NORTH_WEST |-> [row |-> 0,  col |-> -1]]

HEX_DIRECTIONS_EVEN_Q ==
    [NORTH      |-> [row |-> -1, col |-> 0],
     NORTH_EAST |-> [row |-> -1, col |-> 1],
     SOUTH_EAST |-> [row |-> 0,  col |-> 1],
     SOUTH      |-> [row |-> 1,  col |-> 0],
     SOUTH_WEST |-> [row |-> 0,  col |-> -1],
     NORTH_WEST |-> [row |-> -1, col |-> -1]]

add(x, y) == [row |-> x.row + y.row, col |-> x.col + y.col]

\* faulty variant of tileTowards: the even table for every column
tileTowardsEven(position, direction) == add(position, HEX_DIRECTIONS_EVEN_Q[direction])

\* position.col % 2 === 0 selects the even table; JS gives -1 % 2 = -1 and
\* TLA+ gives 1, both different from 0.
tileTowards(position, direction) ==
    LET offset == IF position.col % 2 = 0
                  THEN HEX_DIRECTIONS_EVEN_Q[direction]
                  ELSE HEX_DIRECTIONS_ODD_Q[direction]
    IN add(position, offset)

\* faulty variant of opposite: the next direction clockwise
oppositeClockwise(direction) ==
    IF \E i \in 1..6 : DIRECTION_VALUES[i] = direction
    THEN DIRECTION_VALUES[((CHOOSE i \in 1..6 : DIRECTION_VALUES[i] = direction) % 6) + 1]
    ELSE "error"

\* "error" is the throw
opposite(direction) ==
    CASE direction = "NORTH"      -> "SOUTH"
      [] direction = "NORTH_EAST" -> "SOUTH_WEST"
      [] direction = "SOUTH_EAST" -> "NORTH_WEST"
      [] direction = "SOUTH"      -> "NORTH"
      [] direction = "SOUTH_WEST" -> "NORTH_EAST"
      [] direction = "NORTH_WEST" -> "SOUTH_EAST"
      [] OTHER                    -> "error"

valid(row, col) == 0 <= row /\ row < Rows /\ 0 <= col /\ col < Cols

validCoord(coord) == valid(coord.row, coord.col)

\* faulty variant of clamp: the value wraps around
clampAround(value, lower, upper) ==
    IF value < lower THEN upper ELSE IF value > upper THEN lower ELSE value

clamp(value, lower, upper) ==
    IF value < lower THEN lower ELSE IF value > upper THEN upper ELSE value

(***************************************************************************)
(* SeededRNG: 32-bit xorshift on <<hi, lo>> halves                         *)
(***************************************************************************)
Half == 2^16

RECURSIVE BitXor(_, _)
BitXor(a, b) ==
    IF a = 0 THEN b
    ELSE IF b = 0 THEN a
    ELSE (((a % 2) + (b % 2)) % 2) + 2 * BitXor(a \div 2, b \div 2)

Xor32(x, y) == <<BitXor(x[1], y[1]), BitXor(x[2], y[2])>>

\* x << n on 32 bits, 0 < n < 16
Shl32(x, n) ==
    <<((x[1] * (2^n)) + (x[2] \div (2^(16 - n)))) % Half, (x[2] * (2^n)) % Half>>

\* faulty variant of Sar17: the zero-filling shift >>>
Shr17(x) == <<0, x[1] \div 2>>

\* x >> 17, sign-propagating: bits 17..31 move to 0..14, the sign fills 15..31
Sar17(x) ==
    IF x[1] >= (2^15)
    THEN <<Half - 1, (x[1] \div 2) + (2^15)>>
    ELSE <<0, x[1] \div 2>>

\* the three updates of #seed shared by float() and int32()
XorShift(seed) ==
    LET a == Xor32(seed, Shl32(seed, 13))
        b == Xor32(a, Sar17(a))
    IN Xor32(b, Shl32(b, 5))

\* m * u as a pair <<H, L>> with value H * 2^16 + L, u the unsigned seed
Scaled(u, m) == <<(u[1] * m) + ((u[2] * m) \div Half), (u[2] * m) % Half>>

\* c * (2^32 - 1) as such a pair, c >= 1
ScaledMax(c) == <<(c * Half) - 1, Half - c>>

PairLess(p, q) == p[1] < q[1] \/ (p[1] = q[1] /\ p[2] < q[2])

\* (seed >>> 0) / 0xFFFFFFFF < num / den
FloatLess(u, num, den) == PairLess(Scaled(u, den), ScaledMax(num))

\* (seed >>> 0) / 0xFFFFFFFF * sum - c <= 0 as the doubles decide it, for sum and
\* c in tenths: where den * u = num * (2^32 - 1) exactly (u = 0x3C3C3C3C,
\* 0x69696969, 0x87878787, 0xFFFFFFFF for the rarities of Effects) the rounded
\* remainder is positive, everywhere else the doubles agree with the rationals
RollSpent(u, den, num) == PairLess(Scaled(u, den), ScaledMax(num))

\* SeededRNG.float: the generator moves on and its new state u, read unsigned,
\* is returned as u / 0xFFFFFFFF; the operator gives u
float(seed) == XorShift(seed)

\* randomRange(min, max) for the u of its randomFloat():
\* Math.floor(u / 0xFFFFFFFF * (max - min)) + min, for 1 <= max - min < 2^15.
\* With u * (max - min) = q * 2^32 + r the quotient by 2^32 - 1 is q, or q + 1
\* when r >= 2^32 - 1 - q
randomRange(u, min, max) ==
    LET p == Scaled(u, max - min)
        q == p[1] \div Half
    IN min + q + (IF PairLess(<<p[1] % Half, p[2]>>, <<Half - 1, Half - 1 - q>>)
                  THEN 0 ELSE 1)

\* randomInt32(bound) with bound > 0 for the u of its randomFloat()
randomInt32(u, bound) == randomRange(u, 0, bound)

\* randomBool: randomInt32() % 2 === 0 on the signed value; parity is the low bit
IsEven32(u) == u[2] % 2 = 0

(***************************************************************************)
(* Effects                                                                 *)
(***************************************************************************)
\* Object.keys(Effects), in registration order
EffectOrder ==
    <<"extraSteps", "extraKey", "money", "taxes", "garden", "shop", "exit", "noop">>

\* rarity in tenths
Effects ==
    [extraSteps |-> [triggerText |-> "You have gained 2 extra steps.",
                     triggerLimit |-> -1, rarity |-> 5],
     extraKey   |-> [triggerText |-> "You have found a key.",
                     triggerLimit |-> 1, rarity |-> 3],
     money      |-> [triggerText |-> "You have found a gem.",
                     triggerLimit |-> 1, rarity |-> 3],
     \* the text ends with ItemTexts.gems, written here by its item name
     taxes      |-> [triggerText |-> "You have to pay taxes: gems",
                     triggerLimit |-> -1, rarity |-> 3],
     garden     |-> [triggerText |-> "Your steps have been reset.",
                     triggerLimit |-> -1, rarity |-> 4],
     shop       |-> [triggerText |-> "You can buy a key for #5 with [Space].",
                     triggerLimit |-> 1, rarity |-> 9],
     exit       |-> [triggerText |-> "You have won!",
                     triggerLimit |-> -1, rarity |-> 0],
     noop       |-> [triggerText |-> "",
                     triggerLimit |-> -1, rarity |-> 7]]

RECURSIVE RaritySum(_)
RaritySum(k) ==
    IF k = 0 THEN 0 ELSE RaritySum(k - 1) + Effects[EffectOrder[k]].rarity

(***************************************************************************)
(* Resource ledger                                                         *)
(***************************************************************************)
getResource(res, item) == res[item]

addResource(res, item, amount) == [res EXCEPT ![item] = @ + amount]

\* faulty variant of removeResource: the subtraction without the floor
removeResourceNoFloor(res, item, amount) == [res EXCEPT ![item] = @ - amount]

removeResource(res, item, amount) ==
    [res EXCEPT ![item] = IF @ - amount < 0 THEN 0 ELSE @ - amount]

setResource(res, item, amount) == [res EXCEPT ![item] = amount]

(***************************************************************************)
(* Room                                                                    *)
(***************************************************************************)
\* Room.#defaults
NewRoom ==
    [events       |-> [enter |-> "noop", exit |-> "noop", use |-> "noop"],
     hallways     |-> [d \in Directions |-> [status |-> "unknown", enabled |-> TRUE]],
     revealed     |-> FALSE,
     triggerCount |-> 0,
     needsKey     |-> FALSE,
     items        |-> <<>>,
     coord        |-> [row |-> -1, col |-> -1],
     sharedWith   |-> -1]

\* faulty variant of copy: new Room(this), whose constructor takes over the
\* hallways, items and coord objects of the draft option in slot coord.col
copyShared(room) ==
    [events       |-> room.events,
     hallways     |-> room.hallways,
     revealed     |-> room.revealed,
     triggerCount |-> room.triggerCount,
     needsKey     |-> room.needsKey,
     items        |-> room.items,
     coord        |-> room.coord,
     sharedWith   |-> room.coord.col]

\* Room.copy: new Room(JSON.parse(JSON.stringify(this))), every object of the
\* copy is new, nothing is shared
copy(room) ==
    [events       |-> room.events,
     hallways     |-> room.hallways,
     revealed     |-> room.revealed,
     triggerCount |-> room.triggerCount,
     needsKey     |-> room.needsKey,
     items        |-> room.items,
     coord        |-> room.coord,
     sharedWith   |-> -1]

\* hallways of the spawn room set by newGame
SpawnHallways ==
    [d \in Directions |->
        IF d \in {"SOUTH_WEST", "NORTH_WEST"}
        THEN [status |-> "blocked", enabled |-> TRUE]
        ELSE [status |-> "unknown", enabled |-> TRUE]]

\* hallways of the exit room set by newGame
ExitHallways ==
    [d \in Directions |->
        IF d \in {"NORTH_EAST", "SOUTH_EAST"}
        THEN [status |-> "blocked", enabled |-> TRUE]
        ELSE [status |-> "unknown", enabled |-> TRUE]]

SpawnCoord == [row |-> 2, col |-> 0]
ExitCoord == [row |-> 2, col |-> 9]

(***************************************************************************)
(* The game as one record g: grid, player, currentState, resources,        *)
(* running, lastEffect, draft, seed; and the bookkeeping fields batches    *)
(* (batches generated by the last refreshDrafts), returned (FALSE when the *)
(* do-while of refreshDrafts did not end within MaxBatches) and enterLog   *)
(* (per cell: enter() calls and effect invocations since newGame, counted  *)
(* up to MaxLog).                                                          *)
(***************************************************************************)
\* Game.newGame; the generator is not touched by it
newGame(seed) ==
    [grid |-> [c \in Coords |->
                 IF c = SpawnCoord
                 THEN [NewRoom EXCEPT !.coord = c, !.revealed = TRUE,
                                      !.hallways = SpawnHallways]
                 ELSE IF c = ExitCoord
                 THEN [NewRoom EXCEPT !.coord = c, !.revealed = TRUE,
                                      !.events = [enter |-> "exit", exit |-> "noop",
                                                  use |-> "noop"],
                                      !.hallways = ExitHallways]
                 ELSE [NewRoom EXCEPT !.coord = c]],
     player       |-> SpawnCoord,
     draft        |-> [index |-> 0,
                       position |-> [row |-> 0, col |-> 0],
                       direction |-> "NORTH",
                       options |-> [i \in 0..2 |-> [NewRoom EXCEPT !.revealed = TRUE]]],
     resources    |-> [steps |-> 40, keys |-> 1, gems |-> 0],
     lastEffect   |-> "noop",
     currentState |-> "move",
     running      |-> TRUE,
     seed         |-> seed,
     batches      |-> 0,
     returned     |-> TRUE,
     enterLog     |-> [c \in Coords |-> [calls |-> 0, fired |-> 0]]]

\* faulty variant of pause: the game keeps running
pauseNot(g) == g

\* Game.pause()
pause(g) == [g EXCEPT !.running = FALSE]

\* Effects[event].invoke()
invoke(g, event) ==
    CASE event = "extraSteps" ->
            [g EXCEPT !.resources = addResource(@, "steps", 2)]
      [] event = "extraKey" ->
            [g EXCEPT !.resources = addResource(@, "keys", 1)]
      [] event = "money" ->
            [g EXCEPT !.resources = addResource(@, "gems", 1)]
      [] event = "taxes" ->
            [g EXCEPT !.resources = removeResource(@, "gems", 1)]
      [] event = "garden" ->
            [g EXCEPT !.resources = setResource(@, "steps", 41)]
      [] event = "shop" ->
            IF getResource(g.resources, "gems") >= 5
            THEN [g EXCEPT !.resources =
                     removeResource(addResource(@, "keys", 1), "gems", 5)]
            ELSE g
      [] event = "exit" -> pause(g)
      [] event = "noop" -> g

\* enterLog after one more enter() call that did / did not invoke the effect
logged(log, didFire) ==
    [calls |-> IF log.calls < MaxLog THEN log.calls + 1 ELSE log.calls,
     fired |-> IF didFire /\ log.fired < MaxLog THEN log.fired + 1 ELSE log.fired]

\* faulty variant of limitLeft: the limit is tested with <=
limitLeftInclusive(room, event) == room.triggerCount <= Effects[event].triggerLimit

\* Room.#invokeEvent: this.triggerCount < Effects[event].triggerLimit
limitLeft(room, event) == room.triggerCount < Effects[event].triggerLimit

\* Room.#invokeEvent on the grid room at coord
invokeEvent(g, coord, event) ==
    IF Effects[event].triggerLimit = -1
    THEN [invoke(g, event) EXCEPT
             !.lastEffect = Effects[event].triggerText,
             !.enterLog[coord] = logged(@, TRUE)]
    ELSE IF limitLeft(g.grid[coord], event)
    THEN [invoke(g, event) EXCEPT
             !.lastEffect = Effects[event].triggerText,
             !.grid[coord].triggerCount = @ + 1,
             !.enterLog[coord] = logged(@, TRUE)]
    ELSE [g EXCEPT !.lastEffect = "",
                   !.enterLog[coord] = logged(@, FALSE)]

\* Room.enter
enter(g, coord) == invokeEvent(g, coord, g.grid[coord].events.enter)

(***************************************************************************)
(* Draft generator                                                         *)
(***************************************************************************)
\* the subtract scan of randomRoomPurpose from the k-th effect on, with the
\* rarities subtracted so far summing to cum (tenths); "error" is the throw
RECURSIVE PurposeScan(_, _, _)
PurposeScan(u, k, cum) ==
    IF k > Len(EffectOrder) THEN "error"
    ELSE LET c == cum + Effects[EffectOrder[k]].rarity IN
         IF c > 0 /\ RollSpent(u, RaritySum(Len(EffectOrder)), c)
         THEN EffectOrder[k]
         ELSE PurposeScan(u, k + 1, c)

\* faulty variant of randomRoomPurpose: every registered effect is equally likely
randomRoomPurposeUniform(u) == EffectOrder[(u[2] % Len(EffectOrder)) + 1]

\* randomRoomPurpose, for the generator state u left by its randomFloat()
randomRoomPurpose(u) == PurposeScan(u, 1, 0)

\* faulty variant of hallwayStatus: a hallway toward a revealed room is drawn open
hallwayStatusOpen(g, neighborPos, direction) ==
    IF ~g.grid[neighborPos].revealed THEN "unknown" ELSE "open"

\* faulty variant of hallwayStatus: a hallway toward a hidden cell is drawn open
hallwayStatusNoUnknown(g, neighborPos, direction) ==
    IF ~g.grid[neighborPos].revealed THEN "open"
    ELSE IF g.grid[neighborPos].hallways[opposite(direction)].enabled
         THEN "open"
         ELSE "blocked"

\* generateHallway, the status given to an enabled hallway
hallwayStatus(g, neighborPos, direction) ==
    IF ~g.grid[neighborPos].revealed THEN "unknown"
    ELSE IF g.grid[neighborPos].hallways[opposite(direction)].enabled
         THEN "open"
         ELSE "blocked"

\* faulty variant of hallwayOff: the status of a disabled hallway is left unknown
hallwayOffUnknown == [status |-> "unknown", enabled |-> FALSE]

\* generateHallway, both else branches: enabled = false, status = "blocked"
hallwayOff == [status |-> "blocked", enabled |-> FALSE]

\* generateHallway: the draft room with hallways[direction] set, and the seed
generateHallway(g, position, direction, draftRoom) ==
    LET neighborPos == tileTowards(position, direction)
        off == hallwayOff
    IN
    IF validCoord(neighborPos)
    THEN LET u == XorShift(g.seed) IN
         IF FloatLess(u, 4, 10)
         THEN [seed |-> u,
               room |-> [draftRoom EXCEPT !.hallways[direction] =
                   [enabled |-> TRUE,
                    status |-> hallwayStatus(g, neighborPos, direction)]]]
         ELSE [seed |-> u, room |-> [draftRoom EXCEPT !.hallways[direction] = off]]
    ELSE [seed |-> g.seed, room |-> [draftRoom EXCEPT !.hallways[direction] = off]]

\* DIRECTION_VALUES.forEach(generateHallway) from the k-th direction on
RECURSIVE generateHallways(_, _, _, _)
generateHallways(g, position, draftRoom, k) ==
    IF k > Len(DIRECTION_VALUES) THEN [seed |-> g.seed, room |-> draftRoom]
    ELSE LET r == generateHallway(g, position, DIRECTION_VALUES[k], draftRoom)
         IN generateHallways([g EXCEPT !.seed = r.seed], position, r.room, k + 1)

\* faulty variant of wayBack: the hallway back is left as drawn
wayBackAsDrawn(room, direction) == room

\* generateDraftRoom: draftRoom.hallways[opposite(direction)] forced enabled and open
wayBack(room, direction) ==
    [room EXCEPT !.hallways[opposite(direction)] = [enabled |-> TRUE, status |-> "open"]]

\* faulty variant of draftItems: the list is never cleared
draftItemsKept(items, purpose) ==
    IF purpose = "extraKey" THEN Append(items, "keys") ELSE items

\* generateDraftRoom: room.items.push("keys") for the key room, else
\* room.items.length = 0
draftItems(items, purpose) ==
    IF purpose = "extraKey" THEN Append(items, "keys") ELSE <<>>

\* faulty variant of needsKeyRoll: the purpose is not looked at
needsKeyRollAny(purpose, u) == IsEven32(u)

\* generateDraftRoom: purpose !== "extraKey" && randomBool(), u the generator
\* state the roll reads
needsKeyRoll(purpose, u) == purpose # "extraKey" /\ IsEven32(u)

\* generateDraftRoom, last part: the forced way back, the key roll, the coord;
\* h is the room and the seed left by the six generateHallway calls
\* (purpose !== "extraKey" && randomBool(): no draw for a key room)
draftRoomLock(g, index, direction, purpose, h, u) ==
    [g EXCEPT
        !.seed = u,
        !.draft.options[index] =
            [wayBack(h.room, direction) EXCEPT
                !.needsKey = needsKeyRoll(purpose, u),
                !.coord = [row |-> -1, col |-> index]]]

draftRoomHallways(g, index, direction, purpose, h) ==
    draftRoomLock(g, index, direction, purpose, h,
                  IF purpose # "extraKey" THEN XorShift(h.seed) ELSE h.seed)

\* generateDraftRoom, first part: events and items for the purpose drawn, then the
\* hallways; u is the generator state left by randomRoomPurpose
draftRoomPurpose(g, index, direction, purpose, u) ==
    draftRoomHallways(g, index, direction, purpose,
        generateHallways([g EXCEPT !.seed = u], g.draft.position,
            [g.draft.options[index] EXCEPT
                !.events = [enter |-> purpose, exit |-> "noop", use |-> "noop"],
                !.items = draftItems(@, purpose)],
            1))

draftRoomDrawn(g, index, direction, u) ==
    draftRoomPurpose(g, index, direction, randomRoomPurpose(u), u)

\* generateDraftRoom writes hallways[d].enabled / .status, items and coord.row /
\* .col in place: a room of the grid that shares these objects with the slot
\* shows the same writes
writtenThrough(g, index) ==
    IF \A c \in Coords : g.grid[c].sharedWith # index THEN g
    ELSE [g EXCEPT !.grid =
            [c \in Coords |->
                IF g.grid[c].sharedWith = index
                THEN [g.grid[c] EXCEPT !.hallways = g.draft.options[index].hallways,
                                       !.items = g.draft.options[index].items,
                                       !.coord = g.draft.options[index].coord]
                ELSE g.grid[c]]]

\* generateDraftRoom(index, direction)
generateDraftRoom(g, index, direction) ==
    writtenThrough(draftRoomDrawn(g, index, direction, XorShift(g.seed)), index)

\* the for loop of refreshDrafts from option i on
RECURSIVE generateBatch(_, _, _)
generateBatch(g, direction, i) ==
    IF i > 2 THEN g
    ELSE generateBatch(generateDraftRoom(g, i, direction), direction, i + 1)

\* faulty variant of canDraft: the keys in hand are not counted
canDraftUnlockedOnly(g) ==
    \E i \in 0..2 : ~g.draft.options[i].needsKey

\* the while test of refreshDrafts
canDraft(g) ==
    getResource(g.resources, "keys") # 0
        \/ \E i \in 0..2 : ~g.draft.options[i].needsKey

\* faulty variant of refreshTest: the batch is accepted without the while test
refreshTestOnce(b, direction, n) == [b EXCEPT !.batches = n]

\* the do-while of refreshDrafts: refreshLoop generates the (n+1)-th batch,
\* refreshTest decides on the batch b
RECURSIVE refreshLoop(_, _, _)
refreshTest(b, direction, n) ==
    IF canDraft(b) THEN [b EXCEPT !.batches = n]
    ELSE IF n >= MaxBatches
         THEN [b EXCEPT !.batches = n, !.returned = FALSE]
         ELSE refreshLoop(b, direction, n)

refreshLoop(g, direction, n) ==
    refreshTest(generateBatch(g, direction, 0), direction, n + 1)

refreshDrafts(g) ==
    refreshLoop([g EXCEPT !.draft.index = 0], g.draft.direction, 0)

(***************************************************************************)
(* Movement / draft state machine                                          *)
(***************************************************************************)
\* faulty variant of outOfSteps: the steps are not looked at
outOfStepsNever(res) == FALSE

\* faulty variant of outOfSteps: the test is < 0
outOfStepsBelow(res) == getResource(res, "steps") < 0

\* updatePlayerPosition: getResource("steps") <= 0
outOfSteps(res) == getResource(res, "steps") <= 0

\* faulty variant of stopped: a paused game is not noticed
stoppedNever(g) == FALSE

\* updatePlayerPosition: !gameState.isRunning
stopped(g) == ~g.running

\* faulty variant of openDraft: opening the draft costs a step
openDraftPaid(g, newPosition, direction) ==
    refreshDrafts([g EXCEPT !.draft.position = newPosition,
                            !.draft.direction = direction,
                            !.currentState = "draft",
                            !.resources = removeResource(@, "steps", 1)])

\* faulty variant of openDraft: the player steps onto the hidden cell at once
openDraftMoves(g, newPosition, direction) ==
    refreshDrafts([g EXCEPT !.draft.position = newPosition,
                            !.draft.direction = direction,
                            !.currentState = "draft",
                            !.player = newPosition])

\* faulty variant of openDraft: draft.position is left as the last draft set it
openDraftStale(g, newPosition, direction) ==
    refreshDrafts([g EXCEPT !.draft.direction = direction,
                            !.currentState = "draft"])

\* updatePlayerPosition, the branch for a hidden target cell
openDraft(g, newPosition, direction) ==
    refreshDrafts([g EXCEPT !.draft.position = newPosition,
                            !.draft.direction = direction,
                            !.currentState = "draft"])

\* faulty variant of stepInto: the step is taken before the room is entered
stepIntoCostFirst(g, newPosition) ==
    [enter([g EXCEPT !.resources = removeResource(@, "steps", 1)], newPosition)
        EXCEPT !.player = newPosition]

\* updatePlayerPosition, the branch for a revealed target cell that lets the
\* player in: enter(), movePlayerToCoord, removeResource("steps")
stepInto(g, newPosition) ==
    [enter(g, newPosition) EXCEPT
        !.player = newPosition,
        !.resources = removeResource(@, "steps", 1)]

\* updatePlayerPosition(direction)
updatePlayerPosition(g, direction) ==
    IF stopped(g) THEN g
    ELSE
    LET newPosition == tileTowards(g.player, direction) IN
    IF ~validCoord(newPosition) THEN g
    ELSE IF outOfSteps(g.resources) THEN g
    ELSE
    LET hallways == g.grid[g.player].hallways IN
    IF hallways[direction].enabled /\ hallways[direction].status # "blocked"
    THEN IF ~g.grid[newPosition].revealed
         THEN openDraft(g, newPosition, direction)
         ELSE IF g.grid[newPosition].hallways[opposite(direction)].enabled
         THEN stepInto(g, newPosition)
         ELSE g
    ELSE g

\* faulty variant of Game.placeRoom: the room also replaces the room the
\* player came from
gamePlaceRoomTwice(g, room) ==
    IF validCoord(room.coord)
    THEN [g EXCEPT !.grid[room.coord] = room,
                   !.grid[g.player] = [room EXCEPT !.coord = g.player]]
    ELSE g

\* Game.placeRoom(room)
gamePlaceRoom(g, room) ==
    IF validCoord(room.coord) THEN [g EXCEPT !.grid[room.coord] = room] ELSE g

\* faulty variant of neighborStatus: a wall of the new room does not block the neighbour
neighborStatusOpenOnly(newHallway, neighborHallway) ==
    IF newHallway.enabled /\ neighborHallway.enabled THEN "open"
    ELSE neighborHallway.status

\* faulty variant of neighborStatus: the neighbour is left as it was
neighborStatusKept(newHallway, neighborHallway) == neighborHallway.status

\* placeRoom, the status the neighbour's hallway toward the new room is left with
neighborStatus(newHallway, neighborHallway) ==
    IF ~newHallway.enabled /\ neighborHallway.enabled THEN "blocked"
    ELSE IF newHallway.enabled /\ neighborHallway.enabled THEN "open"
    ELSE neighborHallway.status

\* faulty variant of facing: the neighbour's hallway in the same direction
facingSame(direction) == direction

\* placeRoom, the hallway of the neighbour in direction that is reconciled
facing(direction) == opposite(direction)

\* the DIRECTION_VALUES.forEach at the end of placeRoom, from the k-th direction on
RECURSIVE reconcile(_, _, _)
reconcile(g, newRoom, k) ==
    IF k > Len(DIRECTION_VALUES) THEN g
    ELSE
    LET direction   == DIRECTION_VALUES[k]
        neighborPos == tileTowards(g.draft.position, direction)
        g1 == IF validCoord(neighborPos) /\ g.grid[neighborPos].revealed
              THEN [g EXCEPT !.grid[neighborPos].hallways[facing(direction)].status
                                 = neighborStatus(newRoom.hallways[direction],
                                     g.grid[neighborPos].hallways[facing(direction)])]
              ELSE g
    IN reconcile(g1, newRoom, k + 1)

\* faulty variant of payKey: the locked room is placed without taking a key
payKeyFree(g, option) == g

\* placeRoom: if (newRoom.needsKey) removeResource("keys")
payKey(g, option) ==
    IF option.needsKey
    THEN [g EXCEPT !.resources = removeResource(@, "keys", 1)]
    ELSE g

\* faulty variants of lockedOut: every locked option is refused / none is
lockedOutAlways(option, res) == option.needsKey
lockedOutNever(option, res) == FALSE

\* the early return of placeRoom: newRoom.needsKey && getResource("keys") === 0
lockedOut(option, res) == option.needsKey /\ getResource(res, "keys") = 0

\* faulty variant of unlock: the placed room stays locked
unlockNot(option) == option

\* placeRoom: if (newRoom.needsKey) newRoom.needsKey = false
unlock(option) == IF option.needsKey THEN [option EXCEPT !.needsKey = FALSE] ELSE option

\* placeRoom()
placeRoom(g) ==
    LET option == copy(g.draft.options[g.draft.index]) IN
    IF lockedOut(option, g.resources) THEN g
    ELSE
    LET g1      == payKey(g, option)
        newRoom == [unlock(option) EXCEPT !.coord = g.draft.position]
        g2      == gamePlaceRoom(g1, newRoom)
        g3      == updatePlayerPosition(g2, g2.draft.direction)
        g4      == [g3 EXCEPT !.draft.index = 0]
        g5      == reconcile(g4, newRoom, 1)
    IN [g5 EXCEPT !.currentState = "move"]

\* handler of the draft-scope hotkeys "d" / "a": delta is +1 / -1
selectOption(g, delta) ==
    [g EXCEPT !.draft.index = clamp(@ + delta, 0, 2)]

\* faulty variant of refreshHotkey: the refresh is free
refreshHotkeyFree(g) == refreshDrafts(g)

\* handler of the draft-scope hotkey "r"
refreshHotkey(g) ==
    IF getResource(g.resources, "gems") >= 2
    THEN refreshDrafts([g EXCEPT !.resources = removeResource(@, "gems", 2)])
    ELSE g

\* handlers of the global hotkeys "g" and "k"
addGems(g) == [g EXCEPT !.resources = addResource(@, "gems", 5)]
addKeys(g) == [g EXCEPT !.resources = addResource(@, "keys", 5)]

\* the move-scope hotkeys and their directions
MoveKeys ==
    [w |-> "NORTH", ArrowUp |-> "NORTH", e |-> "NORTH_EAST", d |-> "SOUTH_EAST",
     s |-> "SOUTH", ArrowDown |-> "SOUTH", a |-> "SOUTH_WEST", q |-> "NORTH_WEST"]

\* faulty variant of scope: the move scope whatever the state
scopeMove(g) == "move"

\* InputHandler.handleKeydown: hotkeysByScope.get(gameState.getState())
scope(g) == g.currentState

\* InputHandler.handleKeydown for event.key = key: a global hotkey first (g, k;
\* h, t, u switch display modes only), then the hotkeys of the active scope
handleKeydown(g, key) ==
    IF key = "g" THEN addGems(g)
    ELSE IF key = "k" THEN addKeys(g)
    ELSE IF key \in {"h", "t", "u"} THEN g
    ELSE IF scope(g) = "move"
    THEN IF key \in DOMAIN MoveKeys THEN updatePlayerPosition(g, MoveKeys[key])
         ELSE IF key = "r" THEN newGame(g.seed)
         ELSE g
    ELSE IF scope(g) = "draft"
    THEN IF key \in {"d", "ArrowRight"} THEN selectOption(g, 1)
         ELSE IF key \in {"a", "ArrowLeft"} THEN selectOption(g, -1)
         ELSE IF key \in {" ", "Enter"} THEN placeRoom(g)
         ELSE IF key = "r" THEN refreshHotkey(g)
         ELSE g
    ELSE g

\* handleClick with the mouse over the grid cell mouseCoord (renderer ready)
handleClick(g, mouseCoord) ==
    IF g.currentState = "move" /\ validCoord(mouseCoord)
          /\ \E direction \in Directions : tileTowards(g.player, direction) = mouseCoord
    THEN updatePlayerPosition(g,
            CHOOSE direction \in Directions : tileTowards(g.player, direction) = mouseCoord)
    ELSE g

\* Game.canPlayerDraftTowards(direction), the draft hint of renderHexGrid
canPlayerDraftTowards(g, direction) ==
    IF direction \notin Directions THEN FALSE
    ELSE IF ~validCoord(tileTowards(g.player, direction)) THEN FALSE
    ELSE IF g.grid[tileTowards(g.player, direction)].revealed THEN FALSE
    ELSE /\ g.grid[g.player].hallways[direction].enabled
         /\ g.grid[g.player].hallways[direction].status = "unknown"

(***************************************************************************)
(* Which branch a handler takes (recorded in lastOp)                       *)
(***************************************************************************)
moveResult(g, direction) ==
    LET newPosition == tileTowards(g.player, direction)
        hallways == g.grid[g.player].hallways
    IN
    IF ~g.running THEN "paused"
    ELSE IF ~validCoord(newPosition) THEN "offGrid"
    ELSE IF outOfSteps(g.resources) THEN "noSteps"
    ELSE IF ~hallways[direction].enabled THEN "disabled"
    ELSE IF hallways[direction].status = "blocked" THEN "blocked"
    ELSE IF ~g.grid[newPosition].revealed THEN "draft"
    ELSE IF g.grid[newPosition].hallways[opposite(direction)].enabled THEN "entered"
    ELSE "noWayBack"

placeResult(g) ==
    LET option == g.draft.options[g.draft.index] IN
    IF option.needsKey /\ getResource(g.resources, "keys") = 0 THEN "rejected"
    ELSE IF option.needsKey THEN "unlocked"
    ELSE "placed"

(***************************************************************************)
(* State                                                                   *)
(***************************************************************************)
VARIABLES
    grid,          \* Game.#grid: Coords -> Room
    player,        \* Game.#player
    currentState,  \* Game.#currentState: "move" | "draft"
    resources,     \* Game.#resources: steps, keys, gems
    running,       \* Game.#running
    lastEffect,    \* Game.#lastEffect
    draft,         \* Game.#draft: index, position, direction, options
    seed,          \* SeededRNG.#seed as <<hi, lo>>
    batches,       \* batches generated by the last refreshDrafts
    returned,      \* FALSE: refreshDrafts is still looping
    enterLog,      \* per cell: enter() calls and effect invocations
    lastOp,        \* the last input handled, the branch it took, the resources before
    effort,        \* inputs so far that count against MaxEffort
    plan,          \* which inputs the run explores: "wide" | "walk" | "run" | ...
    rendered,      \* keys of randomSymbolCache / HEX_TILE_CACHE: cells drawn so far
    probe,         \* the last function evaluated on its own, with its inputs
    twin           \* a second session of the program, or "none"

gameVars == <<grid, player, currentState, resources, running, lastEffect, draft,
              seed, batches, returned, enterLog>>

vars == <<grid, player, currentState, resources, running, lastEffect, draft,
          seed, batches, returned, enterLog, lastOp, effort, plan,
          rendered, probe, twin>>

\* what the inputs of a single session leave alone
aside == <<rendered, probe, twin>>

\* the game as a record
Game ==
    [grid |-> grid, player |-> player, currentState |-> currentState,
     resources |-> resources, running |-> running, lastEffect |-> lastEffect,
     draft |-> draft, seed |-> seed, batches |-> batches, returned |-> returned,
     enterLog |-> enterLog]

Becomes(g) ==
    /\ grid' = g.grid
    /\ player' = g.player
    /\ currentState' = g.currentState
    /\ resources' = g.resources
    /\ running' = g.running
    /\ lastEffect' = g.lastEffect
    /\ draft' = g.draft
    /\ seed' = g.seed
    /\ batches' = g.batches
    /\ returned' = g.returned
    /\ enterLog' = g.enterLog

\* the input just handled: the handler, the branch it took, the ledger before,
\* and for a move its direction
Op(name, result) ==
    [op |-> name, result |-> result, before |-> resources, direction |-> "none"]

\* The runs explored.  Every run starts from the constructed game with the
\* generator at ToInt32(Date.now()) of some load time, and takes its inputs by a plan:
\*   "wide"  any input, at most MaxEffort of them changing the world;
\*   "walk"  one room is drafted next to the spawn room, then the player walks
\*           between the revealed rooms for as long as the steps last, and may
\*           press g while it holds fewer than 5 gems;
\*   "run"   the player drafts eastward only, room after room, commits the first
\*           option it can pay for, and steps on the exit when next to it.
Runs ==
    { [plan |-> "wide", seed |-> <<1, 2>>],
      [plan |-> "wide", seed |-> <<12345, 6789>>],
      [plan |-> "walk", seed |-> <<1, 2>>],
      [plan |-> "run", seed |-> <<1, 2>>] }

NothingPlaced == \A c \in Coords : grid[c].revealed => c \in {SpawnCoord, ExitCoord}

\* may the run take an input that enters a draft / enters a revealed room /
\* changes the world otherwise
MayDraft(d) ==
    CASE plan = "wide" -> effort < MaxEffort
      [] plan = "walk" -> NothingPlaced
      [] plan = "run" -> d \in {"NORTH_EAST", "SOUTH_EAST"}
MayWalk(d) ==
    CASE plan = "wide" -> effort < MaxEffort
      [] plan = "walk" -> TRUE
      [] plan = "run" -> tileTowards(player, d) = ExitCoord
MayOther == plan = "wide" /\ effort < MaxEffort
MayTopUp == MayOther \/ (plan = "walk" /\ ~NothingPlaced /\ getResource(resources, "gems") < 5)
\* may the run start a new game: in plan "run" once, after the exit was reached
MayRestart == MayOther \/ (plan = "run" /\ ~running /\ effort = 0)

\* const rng = new SeededRNG(Date.now()); const gameState = new Game()
Constructed(s) ==
    /\ grid = newGame(s).grid
    /\ player = newGame(s).player
    /\ currentState = newGame(s).currentState
    /\ resources = newGame(s).resources
    /\ running = newGame(s).running
    /\ lastEffect = newGame(s).lastEffect
    /\ draft = newGame(s).draft
    /\ seed = newGame(s).seed
    /\ batches = newGame(s).batches
    /\ returned = newGame(s).returned
    /\ enterLog = newGame(s).enterLog
    /\ lastOp = [op |-> "construct", result |-> "ok",
                 before |-> [steps |-> 40, keys |-> 1, gems |-> 0],
                 direction |-> "none"]
    /\ effort = 0
    /\ rendered = {}

NoProbe == [op |-> "none"]

Init ==
    /\ \E r \in Runs : plan = r.plan /\ Constructed(r.seed)
    /\ probe = NoProbe
    /\ twin = "none"

(***************************************************************************)
(* Inputs                                                                  *)
(***************************************************************************)
\* move-scope hotkeys w e d s a q, and a click on a neighbouring cell
Move(d) ==
    /\ currentState = "move"
    /\ returned
    /\ moveResult(Game, d) = "draft" => MayDraft(d)
    /\ moveResult(Game, d) = "entered" => MayWalk(d)
    /\ Becomes(updatePlayerPosition(Game, d))
    /\ lastOp' = [Op("move", moveResult(Game, d)) EXCEPT !.direction = d]
    /\ effort' = IF plan = "wide" /\ moveResult(Game, d) \in {"draft", "entered"}
                 THEN effort + 1 ELSE effort
    /\ UNCHANGED <<plan, aside>>

\* draft-scope hotkey d / ArrowRight
NextOption ==
    /\ currentState = "draft"
    /\ returned
    /\ plan = "run" => lockedOut(draft.options[draft.index], resources)
    /\ Becomes(selectOption(Game, 1))
    /\ lastOp' = Op("next", "ok")
    /\ UNCHANGED <<effort, plan, aside>>

\* draft-scope hotkey a / ArrowLeft
PrevOption ==
    /\ currentState = "draft"
    /\ returned
    /\ plan # "run"
    /\ Becomes(selectOption(Game, -1))
    /\ lastOp' = Op("prev", "ok")
    /\ UNCHANGED <<effort, plan, aside>>

\* draft-scope hotkey Space / Enter
PlaceRoom ==
    /\ currentState = "draft"
    /\ returned
    /\ Becomes(placeRoom(Game))
    /\ lastOp' = Op("placeRoom", placeResult(Game))
    /\ UNCHANGED <<effort, plan, aside>>

\* draft-scope hotkey r
RefreshDraft ==
    /\ currentState = "draft"
    /\ returned
    /\ getResource(resources, "gems") >= 2 => MayOther
    /\ Becomes(refreshHotkey(Game))
    /\ lastOp' = Op("refresh", IF getResource(resources, "gems") >= 2
                               THEN "refreshed" ELSE "rejected")
    /\ effort' = IF getResource(resources, "gems") >= 2 THEN effort + 1 ELSE effort
    /\ UNCHANGED <<plan, aside>>

\* global hotkey g
AddGems ==
    /\ returned
    /\ MayTopUp
    /\ Becomes(addGems(Game))
    /\ lastOp' = Op("addGems", "ok")
    /\ effort' = IF plan = "wide" THEN effort + 1 ELSE effort
    /\ UNCHANGED <<plan, aside>>

\* global hotkey k
AddKeys ==
    /\ returned
    /\ MayOther
    /\ Becomes(addKeys(Game))
    /\ lastOp' = Op("addKeys", "ok")
    /\ effort' = effort + 1
    /\ UNCHANGED <<plan, aside>>

\* faulty variant of NewGame: the ledger is kept
NewGameKeepsLedger ==
    /\ currentState = "move"
    /\ returned
    /\ MayRestart
    /\ Becomes([newGame(seed) EXCEPT !.resources = resources])
    /\ lastOp' = Op("newGame", "ok")
    /\ effort' = effort + 1
    /\ UNCHANGED <<plan, aside>>

\* move-scope hotkey r
NewGame ==
    /\ currentState = "move"
    /\ returned
    /\ MayRestart
    /\ Becomes(newGame(seed))
    /\ lastOp' = Op("newGame", "ok")
    /\ effort' = effort + 1
    /\ UNCHANGED <<plan, aside>>

Next ==
    \/ \E d \in Directions : Move(d)
    \/ NextOption
    \/ PrevOption
    \/ PlaceRoom
    \/ RefreshDraft
    \/ AddGems
    \/ AddKeys
    \/ NewGame

Spec == Init /\ [][Next]_vars

(***************************************************************************)
(* Functions evaluated on their own: each step calls one function of the   *)
(* program on inputs drawn from its domain and keeps the call in probe.    *)
(***************************************************************************)
\* strings that are no direction
NoDirections == {"none", "EAST", "north", ""}

CalcInit ==
    /\ plan = "calc"
    /\ Constructed(<<1, 2>>)
    /\ probe = NoProbe
    /\ twin = "none"

\* one call per run: nothing is called once a call is on record
CalcKeeps ==
    /\ probe = NoProbe
    /\ UNCHANGED <<gameVars, lastOp, effort, plan, rendered, twin>>

CalcTileTowards ==
    /\ \E position \in Coords, direction \in Directions :
          probe' = [op |-> "tileTowards", position |-> position,
                    direction |-> direction,
                    there |-> tileTowards(position, direction),
                    back |-> tileTowards(tileTowards(position, direction),
                                         opposite(direction))]
    /\ CalcKeeps

CalcOpposite ==
    /\ \E direction \in Directions \cup NoDirections :
          probe' = [op |-> "opposite", direction |-> direction,
                    result |-> opposite(direction),
                    twice |-> opposite(opposite(direction))]
    /\ CalcKeeps

\* generator states float() is called in: 0, the two states that give the
\* largest value float() can return (0xFFFFFFFD), states whose float() lies at or
\* next to 1/4, 1/2, 2/3 and 4/5, and states with the sign bit set
FloatStates ==
    {<<0, 0>>, <<1, 2>>, <<47879, 63157>>, <<18183, 59722>>, <<24172, 64743>>,
     <<37484, 40167>>, <<17408, 8192>>, <<54892, 48359>>, <<39863, 10426>>,
     <<26882, 44435>>, <<60709, 53036>>, <<8080, 18949>>, <<32768, 0>>,
     <<65535, 65535>>}

RangeMins == {-3, 0, 5}

RangeSizes == {1, 2, 3, 4, 5, 16}

CalcFloat ==
    /\ \E state \in FloatStates :
          probe' = [op |-> "float", state |-> state, result |-> float(state)]
    /\ CalcKeeps

CalcRange ==
    /\ \E state \in FloatStates, min \in RangeMins, size \in RangeSizes :
          probe' = [op |-> "randomRange", state |-> state, min |-> min,
                    max |-> min + size,
                    result |-> randomRange(float(state), min, min + size)]
    /\ CalcKeeps

\* randomElement on a list of the given length: the index it reads
CalcElement ==
    /\ \E state \in FloatStates, length \in RangeSizes :
          probe' = [op |-> "randomElement", state |-> state, length |-> length,
                    index |-> randomInt32(float(state), length)]
    /\ CalcKeeps

CalcNext ==
    \/ CalcTileTowards
    \/ CalcOpposite
    \/ CalcFloat
    \/ CalcRange
    \/ CalcElement

SpecCalc == CalcInit /\ [][CalcNext]_vars

(***************************************************************************)
(* Two sessions side by side.  Both start from the same constructed game   *)
(* with the generator in the same state and receive the same keys in the   *)
(* same order; each session renders its frames when its own browser        *)
(* schedules them (run starts gameLoop only once the sprite sheet has      *)
(* loaded, and then every frame is a requestAnimationFrame callback), so   *)
(* frames are steps of one session at a time.  Sprites are off, as         *)
(* constructed.                                                            *)
(***************************************************************************)
\* randomElement: items[randomInt32(items.length)], one randomFloat() of the
\* shared generator
randomElement(u) == XorShift(u)

\* calculateIfAbsent: fillColor, innerSymbol, outerSymbol and lineType are drawn
\* when the coordinate has no puzzle piece yet
calculateIfAbsent(u, cache, coord) ==
    IF coord \in cache THEN u
    ELSE randomElement(randomElement(randomElement(randomElement(u))))

\* renderHexTileImage: the tile is drawn when the coordinate has none yet
renderHexTileImage(u, cache, coord) ==
    IF coord \in cache THEN u ELSE randomElement(u)

\* render -> renderResources -> renderPuzzle for the player's cell: the game
\* with the generator moved on, and the coordinates that now have a piece
render(g, cache) ==
    [game     |-> [g EXCEPT !.seed =
                      renderHexTileImage(calculateIfAbsent(@, cache, g.player),
                                         cache, g.player)],
     rendered |-> cache \cup {g.player}]

\* the keys pressed in both sessions
TwinKeys == {"w", "e", "d", "s", "a", "q", " ", "r"}

TwinInit ==
    /\ plan = "twin"
    /\ Constructed(<<1, 2>>)
    /\ probe = NoProbe
    /\ twin = [game |-> newGame(<<1, 2>>), rendered |-> {}]

\* the same key arrives in both sessions
TwinKey(key) ==
    /\ effort < MaxEffort
    /\ Becomes(handleKeydown(Game, key))
    /\ twin' = [twin EXCEPT !.game = handleKeydown(@, key)]
    /\ lastOp' = Op("key", key)
    /\ effort' = effort + 1
    /\ UNCHANGED <<plan, rendered, probe>>

\* gameLoop renders a frame of this session
FrameHere ==
    /\ Becomes(render(Game, rendered).game)
    /\ rendered' = render(Game, rendered).rendered
    /\ lastOp' = Op("frame", "here")
    /\ UNCHANGED <<effort, plan, probe, twin>>

\* gameLoop renders a frame of the other session
FrameThere ==
    /\ twin' = render(twin.game, twin.rendered)
    /\ lastOp' = Op("frame", "there")
    /\ UNCHANGED <<gameVars, effort, plan, rendered, probe>>

TwinNext ==
    \/ \E key \in TwinKeys : TwinKey(key)
    \/ FrameHere
    \/ FrameThere

SpecTwin == TwinInit /\ [][TwinNext]_vars

(***************************************************************************)
(* Two sessions whose generators have been used differently before, both   *)
(* restarted through Game.newGame with the same argument, then given the   *)
(* same keys.  No frame is rendered here.                                  *)
(***************************************************************************)
\* gameState.newGame(arg): newGame() declares no parameter and never calls
\* setSeed, so an argument is dropped and the generator (g.seed) stays as it is
newGameSeeded(g, arg) == newGame(g.seed)

\* seeds a caller may pass to newGame
SeedArgs == {<<0, 7>>, <<1, 2>>}

\* generator states left by earlier use of the other session
SeedHistories == {<<1, 2>>, <<12345, 6789>>}

SeedInit ==
    /\ plan = "seed"
    /\ Constructed(<<1, 2>>)
    /\ probe = NoProbe
    /\ \E h \in SeedHistories : twin = [game |-> newGame(h), rendered |-> {}]

\* both sessions call newGame with the same argument
SeedNewGame(arg) ==
    /\ probe = NoProbe
    /\ Becomes(newGameSeeded(Game, arg))
    /\ twin' = [twin EXCEPT !.game = newGameSeeded(@, arg)]
    /\ probe' = [op |-> "newGame", seed |-> arg]
    /\ lastOp' = Op("newGame", "seeded")
    /\ UNCHANGED <<effort, plan, rendered>>

SeedNext ==
    \/ \E arg \in SeedArgs : SeedNewGame(arg)
    \/ \E key \in TwinKeys : TwinKey(key)

SpecSeed == SeedInit /\ [][SeedNext]_vars

(***************************************************************************)
(* The do-while of refreshDrafts, one iteration per step.  The generator   *)
(* is replaced by a random source that leaves it in any of SourceStates    *)
(* before a batch; the source is fair when it does not forever produce     *)
(* batches the while test rejects.                                         *)
(***************************************************************************)
\* games a draft is opened from: a new game (one key), and the game after the
\* keys w, Enter on generator state <<1, 2>>, where the only key has been spent
\* on the locked room placed north of the spawn room
LoopGames ==
    {newGame(<<1, 2>>),
     placeRoom(updatePlayerPosition(newGame(<<1, 2>>), "NORTH"))}

\* generator states the source leaves before a batch; in state 0 the generator
\* stays at 0 and every room is a locked extraSteps room
SourceStates ==
    {<<a, b>> : a \in {0, 1, 12345, 40000}, b \in {0, 2, 6789, 50001}}

LoopInit ==
    /\ plan = "loop"
    /\ \E g \in LoopGames :
          /\ grid = g.grid
          /\ player = g.player
          /\ currentState = g.currentState
          /\ resources = g.resources
          /\ running = g.running
          /\ lastEffect = g.lastEffect
          /\ draft = g.draft
          /\ seed = g.seed
          /\ batches = 0
          /\ returned = TRUE
          /\ enterLog = g.enterLog
    /\ lastOp = Op("construct", "ok")
    /\ effort = 0
    /\ rendered = {}
    /\ probe = NoProbe
    /\ twin = "none"

\* updatePlayerPosition toward a hidden cell up to the do of refreshDrafts
loopOpened(g, d) ==
    [g EXCEPT !.draft.position = tileTowards(g.player, d),
              !.draft.direction = d,
              !.currentState = "draft",
              !.draft.index = 0]

\* the body of the do-while for an opened draft g, for every state the source
\* can leave the generator in: the three generateDraftRoom calls.  The body
\* writes the options and the generator and reads nothing an earlier
\* iteration wrote, so it is the same in every iteration of one draft.
loopBody(g) ==
    [u \in SourceStates |->
        generateBatch([g EXCEPT !.seed = u], g.draft.direction, 0)]

LoopOpen(d) ==
    /\ probe = NoProbe
    /\ moveResult(Game, d) = "draft"
    /\ Becomes(loopOpened(Game, d))
    /\ probe' = [op |-> "refreshDrafts", pc |-> "do", n |-> 0,
                 body |-> loopBody(loopOpened(Game, d))]
    /\ lastOp' = [Op("move", "draft") EXCEPT !.direction = d]
    /\ UNCHANGED <<effort, plan, rendered, twin>>

\* one iteration: the batch of three rooms, then the while test
LoopBatch(u) ==
    /\ probe # NoProbe
    /\ probe.pc = "do"
    /\ Becomes(probe.body[u])
    /\ probe' = [probe EXCEPT
                    !.pc = IF canDraft(probe.body[u]) THEN "done" ELSE "do",
                    !.n  = IF probe.n < MaxBatches THEN probe.n + 1 ELSE probe.n]
    /\ lastOp' = Op("batch", "generated")
    /\ UNCHANGED <<effort, plan, rendered, twin>>

\* an iteration whose batch passes the while test
FairBatch ==
    \E u \in SourceStates : LoopBatch(u) /\ canDraft(Game')

LoopNext ==
    \/ \E d \in Directions : LoopOpen(d)
    \/ \E u \in SourceStates : LoopBatch(u)

\* once refreshDrafts is called its loop runs on (weak fairness of the
\* iterations), and the source is fair (it does not forever leave out the
\* batches that pass the test); a key press is never forced
SpecLoop ==
    /\ LoopInit
    /\ [][LoopNext]_vars
    /\ WF_vars(\E u \in SourceStates : LoopBatch(u))
    /\ SF_vars(FairBatch)

(***************************************************************************)
(* Claims                                                                  *)
(***************************************************************************)
keys == getResource(resources, "keys")
steps == getResource(resources, "steps")
gems == getResource(resources, "gems")

\* the option under the draft cursor, and whether the last input was a commit
selected == draft.options[draft.index]
Committed == lastOp.op = "placeRoom" /\ lastOp.result # "rejected"

\* C1: draft fairness.  In every state in draft whose refreshDrafts has returned,
\* the player holds a key or one of the three options needs none.
C1_DraftFairness ==
    (currentState = "draft" /\ returned) =>
        (keys >= 1 \/ \E i \in 0..2 : ~draft.options[i].needsKey)

\* C1 witness: a draft entered without a key whose first batch was locked
\* throughout, so that refreshDrafts had to generate another one.
C1_Witness ==
    /\ currentState = "draft"
    /\ returned
    /\ keys = 0
    /\ batches >= 2
    /\ \E i \in 0..2 : draft.options[i].needsKey

\* the game after next / previous inputs have moved the draft cursor to i
RECURSIVE selectTo(_, _)
selectTo(g, i) ==
    IF g.draft.index = i THEN g
    ELSE selectTo(selectOption(g, IF g.draft.index < i THEN 1 ELSE -1), i)

\* g has option i of the current draft committed at draft.position
CommitsOption(g, i) ==
    /\ g.currentState = "move"
    /\ g.grid[draft.position].revealed
    /\ g.grid[draft.position].coord = draft.position
    /\ g.grid[draft.position].events = draft.options[i].events
    /\ g.grid[draft.position].hallways = draft.options[i].hallways

\* C2: the player is never stuck in a draft.  In every draft state some index
\* 0..2 can be reached by select-option inputs at which placeRoom commits
\* the room at draft.position and returns to move.
C2_NeverStuck ==
    (currentState = "draft" /\ returned) =>
        \E i \in 0..2 : CommitsOption(placeRoom(selectTo(Game, i)), i)

\* C2 witness: a draft in which the option under the cursor cannot be committed
\* (locked, no key), so that the cursor has to move first.
C2_Witness ==
    /\ currentState = "draft"
    /\ returned
    /\ keys = 0
    /\ selected.needsKey
    /\ draft.index = 0

\* C3: committing a locked option without a key is a no-op: nothing of the game
\* changes (grid, draft, player, resources, currentState, and the rest).
C3_LockedNoKeyNoOp ==
    [][(/\ currentState = "draft"
        /\ selected.needsKey
        /\ keys = 0
        /\ lastOp'.op = "placeRoom")
       => (UNCHANGED gameVars /\ currentState' = "draft")]_vars

\* C3 witness: the commit input was just refused.
C3_Witness ==
    /\ lastOp.op = "placeRoom"
    /\ lastOp.result = "rejected"
    /\ currentState = "draft"
    /\ selected.needsKey
    /\ keys = 0

\* C4 as claimed: committing a locked option with a key leaves keys exactly one
\* lower and steps exactly one lower, the room written at draft.position and
\* the player on it.
C4_AsClaimed ==
    [][(/\ currentState = "draft"
        /\ selected.needsKey
        /\ keys >= 1
        /\ lastOp'.op = "placeRoom")
       => (/\ keys' = keys - 1
           /\ steps' = steps - 1
           /\ player' = draft.position
           /\ grid'[draft.position].revealed
           /\ grid'[draft.position].events = selected.events
           /\ grid'[draft.position].hallways = selected.hallways)]_vars

\* C4 amended: placeRoom takes one key and one step, and the committed room's
\* enter effect acts in between: keys end one lower unless the room is a shop
\* and gems >= 5 (the purchase returns a key), steps end one lower unless the
\* room is an extraSteps room (one higher) or a garden (40); the room is written
\* unlocked at draft.position and the player stands on it.
C4_LockedWithKey ==
    [][(/\ currentState = "draft"
        /\ selected.needsKey
        /\ keys >= 1
        /\ lastOp'.op = "placeRoom")
       => (/\ keys' = IF selected.events.enter = "shop" /\ gems >= 5
                      THEN keys ELSE keys - 1
           /\ steps' = CASE selected.events.enter = "extraSteps" -> steps + 1
                         [] selected.events.enter = "garden" -> 40
                         [] OTHER -> steps - 1
           /\ player' = draft.position
           /\ currentState' = "move"
           /\ grid'[draft.position].revealed
           /\ ~grid'[draft.position].needsKey
           /\ grid'[draft.position].coord = draft.position
           /\ grid'[draft.position].events = selected.events
           /\ grid'[draft.position].hallways = selected.hallways)]_vars

\* C4 witness: a locked option was just committed with a key, and its enter effect
\* gave steps.
C4_Witness ==
    /\ lastOp.op = "placeRoom"
    /\ lastOp.result = "unlocked"
    /\ grid[player].events.enter \in {"extraSteps", "garden"}
    /\ keys = lastOp.before.keys - 1
    /\ steps >= lastOp.before.steps

\* updatePlayerPosition(d) is called in a state that sends it into a draft
EntersDraft(d) ==
    /\ currentState = "move"
    /\ running
    /\ steps >= 1
    /\ validCoord(tileTowards(player, d))
    /\ grid[player].hallways[d].enabled
    /\ grid[player].hallways[d].status # "blocked"
    /\ ~grid[tileTowards(player, d)].revealed

\* C5: draft entry.  In move state, running, steps >= 1, updatePlayerPosition(d)
\* through an enabled, non-blocked hallway toward an on-grid unrevealed cell sets
\* currentState = draft, draft.position = that cell, draft.direction = d, leaves
\* exactly 3 options, each with its hallway toward opposite(d) enabled and open.
C5_DraftEntry ==
    [][\A d \in Directions :
          (EntersDraft(d) /\ lastOp'.op = "move" /\ lastOp'.direction = d)
          => (/\ currentState' = "draft"
              /\ draft'.position = tileTowards(player, d)
              /\ draft'.direction = d
              /\ DOMAIN draft'.options = 0..2
              /\ \A i \in 0..2 :
                    draft'.options[i].hallways[opposite(d)]
                        = [enabled |-> TRUE, status |-> "open"])]_vars

\* C5 witness: a move has just opened a draft with three options that lead back.
C5_Witness ==
    /\ lastOp.op = "move"
    /\ lastOp.result = "draft"
    /\ currentState = "draft"
    /\ draft.position = tileTowards(player, draft.direction)
    /\ \A i \in 0..2 : draft.options[i].hallways[opposite(draft.direction)].enabled

\* the conditions under which a move is rejected
Rejected(d) ==
    \/ ~running
    \/ ~validCoord(tileTowards(player, d))
    \/ steps = 0
    \/ ~grid[player].hallways[d].enabled
    \/ grid[player].hallways[d].status = "blocked"
    \/ /\ validCoord(tileTowards(player, d))
       /\ grid[tileTowards(player, d)].revealed
       /\ ~grid[tileTowards(player, d)].hallways[opposite(d)].enabled
    \/ player = SpawnCoord /\ d \in {"SOUTH_WEST", "NORTH_WEST"}
    \/ player.row = 0 /\ d = "NORTH"

\* C6: rejected movement changes nothing.  updatePlayerPosition(d) leaves the
\* whole game unchanged when the game is paused, the target is off-grid, steps
\* = 0, the hallway in d is disabled or blocked, or the target is revealed with
\* its hallway back disabled; so for SOUTH_WEST / NORTH_WEST from the spawn cell
\* and NORTH from row 0.
C6_RejectedMove ==
    \A d \in Directions : Rejected(d) => updatePlayerPosition(Game, d) = Game

\* C6 witness: a move was just refused for want of steps alone, an open hallway
\* to a revealed room being at hand.
C6_Witness ==
    /\ lastOp.op = "move"
    /\ lastOp.result = "noSteps"
    /\ steps = 0
    /\ running
    /\ \E d \in Directions :
          /\ validCoord(tileTowards(player, d))
          /\ grid[player].hallways[d] = [enabled |-> TRUE, status |-> "open"]
          /\ grid[tileTowards(player, d)].revealed

\* the pairs (cell, direction) with a revealed room on both sides of the edge
RevealedEdges ==
    {e \in Coords \X Directions :
        /\ grid[e[1]].revealed
        /\ validCoord(tileTowards(e[1], e[2]))
        /\ grid[tileTowards(e[1], e[2])].revealed}

\* C7 as claimed: for revealed neighbours A and B, if A's hallway toward B is
\* enabled then B's hallway toward A is enabled and the two have the same status.
C7_AsClaimed ==
    \A e \in RevealedEdges :
        LET a == grid[e[1]].hallways[e[2]]
            b == grid[tileTowards(e[1], e[2])].hallways[opposite(e[2])]
        IN a.enabled => (b.enabled /\ a.status = b.status)

\* C7 amended: for revealed neighbours A and B the two hallways on the shared
\* edge have the same status: open when both are enabled, blocked when either
\* is disabled (an enabled hallway may face a disabled one, and is then blocked).
C7_SharedEdge ==
    \A e \in RevealedEdges :
        LET a == grid[e[1]].hallways[e[2]]
            b == grid[tileTowards(e[1], e[2])].hallways[opposite(e[2])]
        IN /\ a.status = b.status
           /\ a.status = IF a.enabled /\ b.enabled THEN "open" ELSE "blocked"

\* C7 witness: an enabled hallway faces a disabled one across a shared edge.
C7_Witness ==
    \E e \in RevealedEdges :
        /\ grid[e[1]].hallways[e[2]].enabled
        /\ ~grid[tileTowards(e[1], e[2])].hallways[opposite(e[2])].enabled
        /\ grid[e[1]].hallways[e[2]].status = "blocked"

\* the directions from the draft position toward the cell c
Toward(c) == {e \in Directions : tileTowards(draft.position, e) = c}

\* C8: placement reconciliation.  After a successful placeRoom of R at
\* draft.position, each revealed neighbour N in direction e whose hallway toward
\* R is enabled has that hallway's status blocked if R's hallway in e is disabled
\* and open if it is enabled; disabled hallways of N, its other hallways, and
\* all rooms that are not neighbours of R are unchanged.
C8_Reconciliation ==
    [][(lastOp'.op = "placeRoom" /\ lastOp'.result # "rejected")
       => \A c \in Coords \ {draft.position} :
             IF Toward(c) = {} \/ ~grid[c].revealed
             THEN grid'[c] = grid[c]
             ELSE \A h \in Directions :
                     IF opposite(h) \in Toward(c) /\ grid[c].hallways[h].enabled
                     THEN grid'[c].hallways[h] =
                             [enabled |-> TRUE,
                              status |-> IF grid'[draft.position].hallways[opposite(h)].enabled
                                         THEN "open" ELSE "blocked"]
                     ELSE grid'[c].hallways[h] = grid[c].hallways[h]]_vars

\* C8 witness: a room was just placed with a wall toward a revealed neighbour
\* whose hallway toward it is enabled, and that hallway is now blocked.
C8_Witness ==
    /\ lastOp.op = "placeRoom"
    /\ lastOp.result # "rejected"
    /\ \E e \in Directions :
          /\ validCoord(tileTowards(player, e))
          /\ grid[tileTowards(player, e)].revealed
          /\ ~grid[player].hallways[e].enabled
          /\ grid[tileTowards(player, e)].hallways[opposite(e)]
                = [enabled |-> TRUE, status |-> "blocked"]

Min(a, b) == IF a < b THEN a ELSE b

\* the player has just entered the room it stands in
JustEntered ==
    \/ lastOp.op = "move" /\ lastOp.result = "entered"
    \/ Committed

\* C9: trigger-limit exhaustion.  A room whose enter effect has triggerLimit
\* N >= 0 has had the effect invoked on exactly the first N enter() calls
\* (triggerCount never above N), and a call after the N-th leaves lastEffect
\* empty; an effect with triggerLimit -1 is invoked on every call and leaves
\* triggerCount alone.
C9_TriggerLimit ==
    /\ \A c \in Coords :
          LET limit == Effects[grid[c].events.enter].triggerLimit IN
          IF limit >= 0
          THEN /\ grid[c].triggerCount <= limit
               /\ enterLog[c].fired = Min(enterLog[c].calls, limit)
               /\ grid[c].triggerCount = enterLog[c].fired
          ELSE /\ grid[c].triggerCount = 0
               /\ enterLog[c].fired = enterLog[c].calls
    /\ JustEntered =>
          LET limit == Effects[grid[player].events.enter].triggerLimit IN
          lastEffect = IF limit >= 0 /\ enterLog[player].calls > limit
                       THEN ""
                       ELSE Effects[grid[player].events.enter].triggerText

\* C9 witness: a room with a limited effect was just entered again after the
\* limit was used up.
C9_Witness ==
    /\ JustEntered
    /\ Effects[grid[player].events.enter].triggerLimit = 1
    /\ enterLog[player].calls >= 2
    /\ enterLog[player].fired = 1
    /\ lastEffect = ""

\* C10: resource floor.  In every reachable state steps, keys and gems are
\* >= 0, and removeResource of more than the held amount leaves exactly 0.
C10_ResourceFloor ==
    \A item \in {"steps", "keys", "gems"} :
        /\ resources[item] >= 0
        /\ \A more \in 1..3 :
              removeResource(resources, item, resources[item] + more)[item] = 0

\* C10 witness: a taxes room was just entered with no gems to take.
C10_Witness ==
    /\ JustEntered
    /\ grid[player].events.enter = "taxes"
    /\ lastOp.before.gems = 0
    /\ gems = 0

\* C11: hex adjacency round trip.  For every cell p of the grid and direction d,
\* tileTowards(tileTowards(p, d), opposite(d)) = p, for even and odd columns and
\* also when the cell in between is off-grid; the six neighbours of p are
\* pairwise distinct and differ from p.
C11_HexRoundTrip ==
    probe.op = "tileTowards" =>
        /\ probe.back = probe.position
        /\ probe.there # probe.position
        /\ \A e \in Directions \ {probe.direction} :
              tileTowards(probe.position, e) # probe.there

\* C11 witness: a round trip from column 0 over a cell west of the grid
\* (column -1, where the odd table is the one used).
C11_Witness ==
    /\ probe.op = "tileTowards"
    /\ probe.position.col = 0
    /\ probe.direction = "SOUTH_WEST"
    /\ ~validCoord(probe.there)
    /\ probe.there.col = -1
    /\ probe.back = probe.position

\* C12: opposite is a fixed-point-free involution on the six directions, with
\* the pairs NORTH/SOUTH, NORTH_EAST/SOUTH_WEST, SOUTH_EAST/NORTH_WEST; any
\* other input raises an error.
C12_OppositeInvolution ==
    probe.op = "opposite" =>
        IF probe.direction \in Directions
        THEN /\ probe.twice = probe.direction
             /\ probe.result # probe.direction
             /\ {probe.direction, probe.result} \in
                   {{"NORTH", "SOUTH"}, {"NORTH_EAST", "SOUTH_WEST"},
                    {"SOUTH_EAST", "NORTH_WEST"}}
        ELSE probe.result = "error"

\* C12 witness: opposite was applied to SOUTH_WEST.
C12_Witness ==
    /\ probe.op = "opposite"
    /\ probe.direction = "SOUTH_WEST"
    /\ probe.result = "NORTH_EAST"
    /\ probe.twice = "SOUTH_WEST"

\* C13: winning is terminal.  A move into the exit cell sets running = false,
\* and from then on until newGame no move, select-option, commit or refresh
\* input changes the player position, the grid, steps or currentState (the
\* game stays in move state, where the draft inputs are not dispatched).
C13_WinTerminal ==
    [][/\ (lastOp'.op = "move" /\ player' = ExitCoord /\ player # ExitCoord)
            => ~running'
       /\ ~running =>
            /\ currentState = "move"
            /\ \A d \in Directions : updatePlayerPosition(Game, d) = Game
            /\ lastOp'.op # "newGame" =>
                  /\ UNCHANGED <<player, grid, currentState>>
                  /\ steps' = steps]_vars

\* C13 witness: the player stands on the exit, the game is paused, and a move
\* was just refused.
C13_Witness ==
    /\ ~running
    /\ player = ExitCoord
    /\ lastOp.op = "move"
    /\ lastOp.result = "paused"
    /\ steps > 0

\* the initial configuration
InitialConfiguration(g) ==
    /\ g.player = [row |-> 2, col |-> 0]
    /\ DOMAIN g.grid = [row : 0..4, col : 0..12]
    /\ {c \in DOMAIN g.grid : g.grid[c].revealed}
          = {[row |-> 2, col |-> 0], [row |-> 2, col |-> 9]}
    /\ g.grid[[row |-> 2, col |-> 9]].events.enter = "exit"
    /\ g.resources = [steps |-> 40, keys |-> 1, gems |-> 0]
    /\ g.draft.index = 0
    /\ g.currentState = "move"
    /\ g.running

\* C14: newGame resets to the initial configuration from any reachable state:
\* player at (2,0), exit at (2,9) bound to the exit effect, exactly (2,0) and
\* (2,9) revealed in a 5x13 grid, steps = 40, keys = 1, gems = 0, draft index 0,
\* currentState = move, running = true, whatever the state before the call.
C14_NewGameResets ==
    [][lastOp'.op = "newGame" =>
          /\ InitialConfiguration(Game')
          /\ \A f \in {"grid", "player", "resources", "draft", "currentState",
                       "running", "lastEffect"} :
                Game'[f] = newGame(<<1, 2>>)[f]]_vars

\* C14 witness: a new game was just started from a state with other resources,
\* more rooms revealed and the player elsewhere.
C14_Witness ==
    /\ lastOp.op = "newGame"
    /\ lastOp.before # [steps |-> 40, keys |-> 1, gems |-> 0]
    /\ InitialConfiguration(Game)

\* C15: paid refresh.  In draft state the refresh input with gems >= 2 takes
\* exactly 2 gems, regenerates the three options for the same draft.position
\* and draft.direction, resets draft.index to 0 and leaves grid, player, steps,
\* keys and currentState unchanged; with gems < 2 it changes nothing at all.
C15_PaidRefresh ==
    [][lastOp'.op = "refresh" =>
          IF gems >= 2
          THEN /\ gems' = gems - 2
               /\ draft'.position = draft.position
               /\ draft'.direction = draft.direction
               /\ draft'.index = 0
               /\ DOMAIN draft'.options = 0..2
               /\ \A i \in 0..2 :
                     draft'.options[i].hallways[opposite(draft.direction)]
                         = [enabled |-> TRUE, status |-> "open"]
               /\ canDraft(Game')
               /\ seed' # seed
               /\ \A i \in 0..2 : draft'.options[i].coord = [row |-> -1, col |-> i]
               /\ UNCHANGED <<grid, player, currentState>>
               /\ steps' = steps
               /\ keys' = keys
          ELSE UNCHANGED gameVars]_vars

\* C15 witness: a refresh was just paid for, with the cursor away from 0 before.
C15_Witness ==
    /\ lastOp.op = "refresh"
    /\ lastOp.result = "refreshed"
    /\ gems = lastOp.before.gems - 2
    /\ currentState = "draft"
    /\ draft.index = 0

\* C16: the key requirement is cleared for good.  Every room stored in the grid
\* has needsKey = false; only draft options can have needsKey = true.
C16_GridUnlocked ==
    \A c \in Coords : ~grid[c].needsKey

\* C16 witness: a locked option was just placed, and another locked option is
\* on offer in a later draft.
C16_Witness ==
    /\ \E c \in Coords \ {SpawnCoord, ExitCoord} : grid[c].revealed
    /\ keys < lastOp.before.keys
    /\ lastOp.op = "placeRoom"
    /\ lastOp.result = "unlocked"

\* the sum of all rarities, in tenths
RarityTotal == RaritySum(Len(EffectOrder))

\* the largest generator state u with u / (2^32 - 1) * RarityTotal <= c
Threshold(c) ==
    LET p == ScaledMax(c)
    IN <<p[1] \div RarityTotal, ((p[1] % RarityTotal) * Half + p[2]) \div RarityTotal>>

Succ32(u) == IF u[2] = Half - 1 THEN <<(u[1] + 1) % Half, 0>> ELSE <<u[1], u[2] + 1>>

Pred32(u) == IF u[2] = 0 THEN <<(u[1] + Half - 1) % Half, Half - 1>> ELSE <<u[1], u[2] - 1>>

\* the generator state whose float() is 1, i.e. the roll equal to the sum
RollOfSum == <<Half - 1, Half - 1>>

\* generator states at and next to every boundary of the scan: roll 0, the
\* cumulative rarities, and the sum itself
PurposeRolls ==
    {<<0, 0>>, <<1, 2>>} \cup
    UNION {{Threshold(RaritySum(k)), Succ32(Threshold(RaritySum(k))),
            Pred32(Threshold(RaritySum(k)))} : k \in 1..Len(EffectOrder)}

\* effect r is a correct outcome of the scan for generator state u: registered,
\* of positive rarity, and the roll lies between the rarities summed before r
\* and those summed up to r
Drawn(u, r) ==
    /\ r \in DOMAIN Effects
    /\ Effects[r].rarity > 0
    /\ \E k \in 1..Len(EffectOrder) :
          /\ EffectOrder[k] = r
          /\ RaritySum(k - 1) > 0 =>
                ~PairLess(Scaled(u, RarityTotal), ScaledMax(RaritySum(k - 1)))
          /\ ~PairLess(ScaledMax(RaritySum(k)), Scaled(u, RarityTotal))

\* the exit effect is bound to an event of the room
BoundToExit(room) ==
    \E slot \in DOMAIN room.events : room.events[slot] = "exit"

\* among grid cells and draft options only the exit cell is bound to exit
OnlyExitCell ==
    /\ \A c \in Coords : BoundToExit(grid[c]) <=> c = ExitCoord
    /\ \A i \in 0..2 : ~BoundToExit(draft.options[i])

\* the scan gives a correct outcome for every roll of PurposeRolls
DrawnUpToSum == \A u \in PurposeRolls : Drawn(u, randomRoomPurpose(u))

\* the same for the rolls below the sum; at the sum the scan throws
DrawnBelowSum ==
    /\ \A u \in PurposeRolls \ {RollOfSum} : Drawn(u, randomRoomPurpose(u))
    /\ randomRoomPurpose(RollOfSum) = "error"

C18_DraftIndex ==
    [][/\ draft.index \in 0..2
       /\ draft'.index \in 0..2
       /\ lastOp'.op = "next" =>
             draft'.index = IF draft.index = 2 THEN 2 ELSE draft.index + 1
       /\ lastOp'.op = "prev" =>
             draft'.index = IF draft.index = 0 THEN 0 ELSE draft.index - 1
       /\ (lastOp'.op = "refresh" /\ lastOp'.result = "refreshed") => draft'.index = 0
       /\ (lastOp'.op = "move" /\ lastOp'.result = "draft") => draft'.index = 0
       /\ (lastOp'.op = "placeRoom" /\ lastOp'.result # "rejected") => draft'.index = 0]_vars

\* C18 witness: the next input was just given with the cursor on the last option.
C18_Witness ==
    /\ lastOp.op = "next"
    /\ currentState = "draft"
    /\ draft.index = 2

\* keys and clicks that move the player in move state
MoveOnlyKeys == {"w", "ArrowUp", "e", "s", "ArrowDown", "q"}

\* C19: a draft is a one-way commitment.  In draft state movement inputs have
\* no effect, and currentState returns to move only through a successful
\* placeRoom, which reveals draft.position, or through newGame; no input
\* leaves the draft with the target cell unrevealed.
C19_DraftOneWay ==
    [][currentState = "draft" =>
          /\ \A key \in MoveOnlyKeys : handleKeydown(Game, key) = Game
          /\ \A key \in {"d", "a"} :
                handleKeydown(Game, key) = [Game EXCEPT !.draft.index = handleKeydown(Game, key).draft.index]
          /\ \A d \in Directions : handleClick(Game, tileTowards(player, d)) = Game
          /\ lastOp'.op # "move"
          /\ currentState' = "move" =>
                \/ /\ lastOp'.op = "placeRoom"
                   /\ lastOp'.result # "rejected"
                   /\ grid'[draft.position].revealed
                   /\ ~grid[draft.position].revealed
                \/ lastOp'.op = "newGame"
          /\ currentState' = "draft" =>
                /\ ~grid'[draft.position].revealed
                /\ draft'.position = draft.position]_vars

\* C19 witness: in a draft, with steps left and the game running, the cursor
\* was just moved.
C19_Witness ==
    /\ currentState = "draft"
    /\ lastOp.op = "prev"
    /\ running
    /\ steps >= 1
    /\ ~grid[draft.position].revealed

\* what the claim compares between two sessions
Observable(g) ==
    [grid |-> g.grid, options |-> g.draft.options, resources |-> g.resources,
     player |-> g.player]

\* C20 as claimed: RNG determinism.  Two sessions that start with the same
\* generator state and receive the same input sequence are in identical states
\* (grid, draft options, resources, player).
C20_AsClaimed ==
    Observable(Game) = Observable(twin.game)

\* C20, the part that holds: as long as both sessions have rendered the same
\* cells and their generators are in the same state, the same keys keep their
\* states identical, generator included.
C20_SameDrawsSameStates ==
    [][(Game = twin.game /\ lastOp'.op = "key") => Game' = twin'.game]_vars

\* C20 witness: the sessions have taken the same keys, one has rendered a frame
\* before its first draft and the other has not, and the options on offer differ.
C20_Witness ==
    /\ lastOp.op = "key"
    /\ currentState = "draft"
    /\ twin.game.currentState = "draft"
    /\ rendered # twin.rendered
    /\ draft.options # twin.game.draft.options

\* C21 as claimed: when a seed is supplied to newGame, generation after it is
\* reproducible.  Two sessions that call newGame with the same seed and then
\* receive the same inputs have the same draft options and grid, whatever was
\* drawn from the generator before.
C21_AsClaimed ==
    probe.op = "newGame" =>
        /\ grid = twin.game.grid
        /\ draft.options = twin.game.draft.options

\* C21, what the code does: newGame with an argument resets the game and leaves
\* the generator of each session in the state it was in.
C21_SeedIgnored ==
    [][lastOp'.op = "newGame" =>
          /\ seed' = seed
          /\ twin'.game.seed = twin.game.seed
          /\ InitialConfiguration(Game')
          /\ InitialConfiguration(twin'.game)]_vars

\* C21 witness: both sessions were restarted with the same seed argument, took
\* the same keys since, and are offered different options.
C21_Witness ==
    /\ probe.op = "newGame"
    /\ lastOp.op = "key"
    /\ currentState = "draft"
    /\ twin.game.currentState = "draft"
    /\ draft.position = twin.game.draft.position
    /\ draft.options # twin.game.draft.options

\* C22: range of the generator.  For every generator state float() returns a
\* value in [0,1), i.e. its numerator is below 0xFFFFFFFF; randomRange(min, max)
\* with min < max returns an integer in min..max-1; randomElement reads an index
\* inside a non-empty list.
C22_GeneratorRange ==
    /\ probe.op = "float" =>
          /\ probe.result \in (0..(Half - 1)) \X (0..(Half - 1))
          /\ probe.result # <<Half - 1, Half - 1>>
    /\ probe.op = "randomRange" => probe.result \in probe.min..(probe.max - 1)
    /\ probe.op = "randomElement" => probe.index \in 0..(probe.length - 1)

\* C22 witness: randomRange was called in a state whose float() is the largest
\* there is, and returned max - 1.
C22_Witness ==
    /\ probe.op = "randomRange"
    /\ float(probe.state) = <<Half - 1, Half - 3>>
    /\ probe.max - probe.min = 16
    /\ probe.result = probe.max - 1

\* C23: entering a draft is free.  The step from move to draft changes only
\* currentState, draft.position, draft.direction, draft.index and the draft
\* options; steps, keys, gems, the player position, lastEffect and every room
\* in the grid are unchanged.
C23_DraftEntryFree ==
    [][(currentState = "move" /\ currentState' = "draft") =>
          /\ lastOp'.op = "move"
          /\ lastOp'.result = "draft"
          /\ resources' = resources
          /\ player' = player
          /\ lastEffect' = lastEffect
          /\ grid' = grid
          /\ running' = running]_vars

\* C23 witness: a draft was just entered after rooms had been placed and steps
\* had been spent.
C23_Witness ==
    /\ lastOp.op = "move"
    /\ lastOp.result = "draft"
    /\ currentState = "draft"
    /\ \E c \in Coords \ {SpawnCoord, ExitCoord} : grid[c].revealed
    /\ steps = lastOp.before.steps
    /\ steps < 40

\* C24: hallway generation rule.  In a draft for target cell p approached in
\* direction d, for every option and every direction e other than opposite(d):
\* off-grid neighbour => hallway disabled; an enabled hallway is unknown exactly
\* when the neighbour is unrevealed, open exactly when it is revealed with its
\* back-hallway enabled, blocked exactly when it is revealed with its
\* back-hallway disabled; every disabled hallway of an option is blocked.
C24_HallwayRule ==
    currentState = "draft" =>
        \A i \in 0..2, e \in Directions :
            LET h == draft.options[i].hallways[e]
                n == tileTowards(draft.position, e)
            IN /\ ~h.enabled => h.status = "blocked"
               /\ e # opposite(draft.direction) =>
                     /\ ~validCoord(n) => ~h.enabled
                     /\ (h.enabled /\ validCoord(n)) =>
                           /\ h.status = "unknown" <=> ~grid[n].revealed
                           /\ h.status = "open" <=>
                                 (grid[n].revealed
                                    /\ grid[n].hallways[opposite(e)].enabled)
                           /\ h.status = "blocked" <=>
                                 (grid[n].revealed
                                    /\ ~grid[n].hallways[opposite(e)].enabled)

\* C24 witness: a draft whose options show, away from the way back, an open
\* hallway to a revealed neighbour, an unknown one, and a disabled one at the
\* edge of the grid.
C24_Witness ==
    /\ currentState = "draft"
    /\ \E i \in 0..2, e \in Directions \ {opposite(draft.direction)} :
          /\ draft.options[i].hallways[e].enabled
          /\ draft.options[i].hallways[e].status = "open"
    /\ \E i \in 0..2, e \in Directions :
          /\ draft.options[i].hallways[e].enabled
          /\ draft.options[i].hallways[e].status = "unknown"
    /\ \E e \in Directions : ~validCoord(tileTowards(draft.position, e))

\* C25 as claimed: item list of a draft option.  After every generateDraftRoom
\* the option's items list holds exactly one keys item if its enter effect is
\* extraKey and is empty otherwise.
C25_AsClaimed ==
    \A i \in 0..2 :
        draft.options[i].items =
            IF draft.options[i].events.enter = "extraKey" THEN <<"keys">> ELSE <<>>

\* C25: item list of a draft option.  After every generateDraftRoom the
\* option's items list is empty unless its enter effect is extraKey; for
\* extraKey it holds keys items only, at least one: one for every generation in
\* a row of that option slot that drew extraKey.
C25_ItemList ==
    \A i \in 0..2 :
        LET items == draft.options[i].items IN
        /\ \A k \in 1..Len(items) : items[k] = "keys"
        /\ Len(items) >= 1 <=> draft.options[i].events.enter = "extraKey"

\* C25 witness: an option slot drew extraKey twice in a row and lists two keys
\* items.
C25_Witness ==
    \E i \in 0..2 :
        /\ draft.options[i].events.enter = "extraKey"
        /\ Len(draft.options[i].items) = 2

\* C26: a key-granting room is never locked.  No draft option whose enter
\* effect is extraKey has needsKey = true.
C26_KeyRoomUnlocked ==
    \A i \in 0..2 :
        draft.options[i].events.enter = "extraKey" => ~draft.options[i].needsKey

\* C26 witness: a draft offers a key room next to a locked room.
C26_Witness ==
    /\ currentState = "draft"
    /\ \E i \in 0..2 : draft.options[i].events.enter = "extraKey"
    /\ \E i \in 0..2 : draft.options[i].needsKey

\* C27: a commit always completes the move.  In every draft state the game is
\* running, steps >= 1 and the player's hallway in draft.direction is enabled
\* and not blocked; so after any successful placeRoom the player stands on the
\* committed cell, the committed room's enter effect has been invoked exactly
\* once, and currentState = move.
C27_CommitCompletes ==
    [][/\ currentState = "draft" =>
             /\ running
             /\ steps >= 1
             /\ grid[player].hallways[draft.direction].enabled
             /\ grid[player].hallways[draft.direction].status # "blocked"
             /\ draft.position = tileTowards(player, draft.direction)
       /\ (lastOp'.op = "placeRoom" /\ lastOp'.result # "rejected") =>
             /\ player' = draft.position
             /\ grid'[player'].revealed
             /\ enterLog[draft.position] = [calls |-> 0, fired |-> 0]
             /\ enterLog'[draft.position] = [calls |-> 1, fired |-> 1]
             /\ lastEffect' = Effects[draft.options[draft.index].events.enter].triggerText
             /\ currentState' = "move"]_vars

\* C27 witness: a room was just committed after steps had been spent, and the
\* player stands on it.
C27_Witness ==
    /\ lastOp.op = "placeRoom"
    /\ lastOp.result # "rejected"
    /\ lastOp.before.steps < 40
    /\ player = draft.position
    /\ currentState = "move"

\* the steps left by entering a room bound to the given enter effect
StepsAfter(effect, before) ==
    IF effect = "garden" THEN 40
    ELSE IF effect = "extraSteps" THEN before + 1
    ELSE before - 1

\* C28: order of effect and step cost on a successful move into a revealed
\* room.  The enter effect is applied first and one step is deducted
\* afterwards: entering a garden room leaves steps = 40, entering an extraSteps
\* room leaves steps one higher than before, entering any other room leaves
\* steps one lower.
C28_EffectThenStep ==
    [][/\ (lastOp'.op = "move" /\ lastOp'.result = "entered") =>
             /\ player' = tileTowards(player, lastOp'.direction)
             /\ steps' = StepsAfter(grid[player'].events.enter, steps)
       /\ (lastOp'.op = "placeRoom" /\ lastOp'.result # "rejected") =>
             steps' = StepsAfter(draft.options[draft.index].events.enter, steps)]_vars

\* C28 witness: the player has just walked back into a garden room with fewer
\* than 40 steps and has 40.
C28_Witness ==
    /\ lastOp.op = "move"
    /\ lastOp.result = "entered"
    /\ grid[player].events.enter = "garden"
    /\ lastOp.before.steps < 40
    /\ steps = 40

\* C29: no stale unknown edges.  An enabled hallway of a revealed room that
\* faces a revealed on-grid neighbour never has status unknown; an enabled
\* hallway of a revealed room that faces an unrevealed on-grid cell never has
\* status open.
C29_NoStaleEdges ==
    \A c \in Coords, e \in Directions :
        LET n == tileTowards(c, e) IN
        (grid[c].revealed /\ grid[c].hallways[e].enabled /\ validCoord(n)) =>
            /\ grid[n].revealed => grid[c].hallways[e].status # "unknown"
            /\ ~grid[n].revealed => grid[c].hallways[e].status # "open"

\* C29 witness: a room was placed next to a revealed room other than the one
\* the player came from, and that neighbour's hallway toward it is enabled.
C29_Witness ==
    /\ lastOp.op = "placeRoom"
    /\ lastOp.result # "rejected"
    /\ \E e \in Directions \ {opposite(draft.direction)} :
          LET n == tileTowards(player, e) IN
          /\ validCoord(n)
          /\ grid[n].revealed
          /\ grid[n].hallways[opposite(e)].enabled
          /\ grid[n].hallways[opposite(e)].status \in {"open", "blocked"}

\* a draft has just been generated: a draft entry or a paid refresh
Regenerated ==
    \/ lastOp'.op = "move" /\ lastOp'.result = "draft"
    \/ lastOp'.op = "refresh" /\ lastOp'.result = "refreshed"

\* C30: the committed room is an independent copy.  After a placement,
\* regenerating the draft options (a later draft entry, a retry of the batch, a
\* paid refresh) never changes any field of any room stored in the grid, and
\* entering a grid room (on a move or on the commit itself) never changes a
\* draft option; no room of the grid shares an object with an option.
C30_IndependentCopy ==
    [][/\ \A c \in Coords : grid[c].sharedWith = -1
       /\ Regenerated => grid' = grid
       /\ (lastOp'.op = "move" /\ lastOp'.result = "entered") =>
             draft'.options = draft.options
       /\ (lastOp'.op = "placeRoom" /\ lastOp'.result # "rejected") =>
             /\ draft'.options = draft.options
             /\ grid'[draft.position] =
                   [draft.options[draft.index] EXCEPT
                       !.needsKey = FALSE,
                       !.coord = draft.position,
                       !.triggerCount = grid'[draft.position].triggerCount]]_vars

\* C30 witness: after a placement the options were generated again, and none of
\* them has the hallways of the room in the grid.
C30_Witness ==
    /\ lastOp.op \in {"move", "refresh"}
    /\ lastOp.result \in {"draft", "refreshed"}
    /\ currentState = "draft"
    /\ \E c \in Coords \ {SpawnCoord, ExitCoord} :
          /\ grid[c].revealed
          /\ \A i \in 0..2 : draft.options[i].hallways # grid[c].hallways

\* C31: termination of the draft retry loop.  With keys >= 1 refreshDrafts
\* generates exactly one batch of three rooms; with keys = 0 it generates whole
\* batches until one has an option with needsKey = false; and under a fair
\* random source it eventually returns.
C31_RetryTerminates ==
    /\ [][lastOp'.op = "batch" =>
             /\ \A i \in 0..2 : draft'.options[i].coord = [row |-> -1, col |-> i]
             /\ probe.n >= 1 =>
                   (keys = 0 /\ \A i \in 0..2 : draft.options[i].needsKey)
             /\ keys >= 1 => (probe'.pc = "done" /\ probe'.n = 1)
             /\ probe'.pc = "done" <=>
                   (keys >= 1 \/ \E i \in 0..2 : ~draft'.options[i].needsKey)]_vars
    /\ (probe # NoProbe) ~> (probe # NoProbe /\ probe.pc = "done")

\* C31 witness: without a key the loop has returned after more than one batch.
C31_Witness ==
    /\ probe # NoProbe
    /\ probe.pc = "done"
    /\ probe.n >= 3
    /\ keys = 0
    /\ \E i \in 0..2 : ~draft.options[i].needsKey

\* the cells that are revealed in grid gr
Revealed(gr) == {c \in Coords : gr[c].revealed}

\* C32: reveal happens only by draft commitment and is permanent.  In every
\* step other than newGame the set of revealed cells grows by exactly the cell
\* draft.position when the step is a successful placeRoom and is unchanged
\* otherwise; that cell was hidden before; and every cell revealed before keeps
\* its room (coordinate, effects, items, lock, and which hallways are enabled).
C32_RevealByCommit ==
    [][lastOp'.op # "newGame" =>
          /\ Revealed(grid') =
                Revealed(grid) \cup
                (IF lastOp'.op = "placeRoom" /\ lastOp'.result # "rejected"
                 THEN {draft.position} ELSE {})
          /\ (lastOp'.op = "placeRoom" /\ lastOp'.result # "rejected") =>
                (validCoord(draft.position) /\ ~grid[draft.position].revealed)
          /\ \A c \in Revealed(grid) :
                /\ grid'[c].coord = grid[c].coord
                /\ grid'[c].events = grid[c].events
                /\ grid'[c].items = grid[c].items
                /\ grid'[c].needsKey = grid[c].needsKey
                /\ \A d \in Directions :
                      grid'[c].hallways[d].enabled = grid[c].hallways[d].enabled]_vars

\* C32 witness: a second room has just been committed next to revealed ones.
C32_Witness ==
    /\ Committed
    /\ Cardinality(Revealed(grid)) >= 4
    /\ grid[player].revealed
    /\ \E d \in Directions :
          /\ validCoord(tileTowards(player, d))
          /\ grid[tileTowards(player, d)].revealed

\* C33: in every reachable state the player's coordinate is on the grid
\* (0 <= row < 5, 0 <= col < 13) and the room at that coordinate is revealed.
C33_PlayerOnRevealed ==
    /\ player.row \in 0..(Rows - 1)
    /\ player.col \in 0..(Cols - 1)
    /\ validCoord(player)
    /\ grid[player].revealed
    /\ grid[player].coord = player

\* C33 witness: the player has walked through a hallway into a revealed
\* room other than the spawn room.
C33_Witness ==
    /\ lastOp.op = "move"
    /\ lastOp.result = "entered"
    /\ player # SpawnCoord
    /\ Cardinality(Revealed(grid)) >= 3

\* C34: in every reachable state with currentState = draft, draft.position is
\* the neighbour of the player's cell in draft.direction, it is on the grid,
\* and the grid cell there is unrevealed.
C34_DraftTarget ==
    currentState = "draft" =>
        /\ draft.direction \in Directions
        /\ draft.position = tileTowards(player, draft.direction)
        /\ validCoord(draft.position)
        /\ ~grid[draft.position].revealed

\* C34 witness: a draft opened from a placed room, the second draft of the game.
C34_Witness ==
    /\ currentState = "draft"
    /\ lastOp.op = "move"
    /\ lastOp.result = "draft"
    /\ player # SpawnCoord
    /\ draft.position = tileTowards(player, draft.direction)

\* would a move from cell c in direction d be accepted, were the player on c
Accepts(c, d) == moveResult([Game EXCEPT !.player = c], d) = "entered"

\* C35: traversal is symmetric.  In every reachable state with currentState =
\* move, for any two revealed neighbouring cells A and B either both facing
\* hallways are enabled with status open, and then (the game running, a step
\* left) a move is accepted from A to B and from B to A; or at least one of
\* them is disabled and the other, if enabled, has status blocked, and then a
\* move is rejected in both directions.
C35_SymmetricTraversal ==
    currentState = "move" =>
        \A e \in RevealedEdges :
            LET A == e[1]
                B == tileTowards(e[1], e[2])
                a == grid[e[1]].hallways[e[2]]
                b == grid[tileTowards(e[1], e[2])].hallways[opposite(e[2])]
            IN \/ /\ a.enabled /\ a.status = "open"
                  /\ b.enabled /\ b.status = "open"
                  /\ (running /\ steps >= 1) =>
                        (Accepts(A, e[2]) /\ Accepts(B, opposite(e[2])))
               \/ /\ ~a.enabled \/ ~b.enabled
                  /\ a.enabled => a.status = "blocked"
                  /\ b.enabled => b.status = "blocked"
                  /\ ~Accepts(A, e[2])
                  /\ ~Accepts(B, opposite(e[2]))

\* C35 witness: in move state, with the game running and steps left, the
\* player's room has an open edge to one revealed neighbour and an enabled but
\* blocked hallway toward another revealed neighbour whose side is a wall.
C35_Witness ==
    /\ currentState = "move"
    /\ running
    /\ steps >= 1
    /\ \E d \in Directions :
          /\ <<player, d>> \in RevealedEdges
          /\ grid[player].hallways[d].status = "open"
          /\ Accepts(player, d)
    /\ \E d \in Directions :
          /\ <<player, d>> \in RevealedEdges
          /\ grid[player].hallways[d].enabled
          /\ grid[player].hallways[d].status = "blocked"
          /\ ~grid[tileTowards(player, d)].hallways[opposite(d)].enabled
          /\ ~Accepts(player, d)

\* C36: in every reachable state running = false if and only if the player
\* stands on the exit cell (2,9); the game is never paused in draft state.
C36_PausedOnExit ==
    /\ ~running <=> player = ExitCoord
    /\ ExitCoord = [row |-> 2, col |-> 9]
    /\ currentState = "draft" => running

\* C36 witness: the player has just walked into the exit room and the game
\* is paused.
C36_Witness ==
    /\ lastOp.op = "move"
    /\ lastOp.result = "entered"
    /\ player = ExitCoord
    /\ ~running
    /\ currentState = "move"

\* C37: a shop room is used up by its first entry whether or not a purchase
\* happens.  The first enter() of a shop room (at its placement) gives exactly
\* one key for exactly 5 gems if gems >= 5 and changes no resource otherwise;
\* every later enter() of the room changes no resource (the move itself costs
\* its step); so the effect of a shop room is invoked once, for at most one key.
C37_ShopUsedUp ==
    [][/\ (/\ lastOp'.op = "placeRoom"
           /\ lastOp'.result # "rejected"
           /\ selected.events.enter = "shop")
          => /\ keys' = keys - (IF selected.needsKey THEN 1 ELSE 0)
                             + (IF gems >= 5 THEN 1 ELSE 0)
             /\ gems' = IF gems >= 5 THEN gems - 5 ELSE gems
             /\ steps' = steps - 1
             /\ player' = draft.position
       /\ (/\ lastOp'.op = "move"
           /\ lastOp'.result = "entered"
           /\ grid[player'].events.enter = "shop")
          => /\ keys' = keys
             /\ gems' = gems
             /\ steps' = steps - 1
             /\ lastEffect' = ""
             /\ grid' = grid
       /\ \A c \in Coords :
             (grid'[c].revealed /\ grid'[c].events.enter = "shop")
             => /\ grid'[c].triggerCount = 1
                /\ enterLog'[c].fired = 1
                /\ enter(Game', c).resources = resources']_vars

\* C37 witness: the player has walked back into a shop room with 5 gems or
\* more at hand, and no purchase has happened.
C37_Witness ==
    /\ lastOp.op = "move"
    /\ lastOp.result = "entered"
    /\ grid[player].events.enter = "shop"
    /\ lastOp.before.gems >= 5
    /\ gems = lastOp.before.gems
    /\ keys = lastOp.before.keys
    /\ enterLog[player].calls >= 2
    /\ enterLog[player].fired = 1

\* C38: the draft hint agrees with the move.  In every reachable state with
\* currentState = move, running = true and steps >= 1, for every direction d
\* canPlayerDraftTowards(d) is true if and only if updatePlayerPosition(d)
\* would switch to draft state; and a move input taken there switches to draft
\* state exactly when the hint for its direction was true.
C38_HintAgrees ==
    [][(currentState = "move" /\ running /\ steps >= 1) =>
          /\ \A d \in Directions :
                canPlayerDraftTowards(Game, d) <=> (moveResult(Game, d) = "draft")
          /\ lastOp'.op = "move" =>
                (currentState' = "draft" <=>
                    canPlayerDraftTowards(Game, lastOp'.direction))]_vars

\* C38 witness: a draft has just been opened from a placed room in a direction
\* the hint showed, while the hint was off for another hidden neighbour.
C38_Witness ==
    /\ lastOp.op = "move"
    /\ lastOp.result = "draft"
    /\ currentState = "draft"
    /\ player # SpawnCoord
    /\ canPlayerDraftTowards(Game, lastOp.direction)
    /\ \E d \in Directions :
          /\ validCoord(tileTowards(player, d))
          /\ ~grid[tileTowards(player, d)].revealed
          /\ ~canPlayerDraftTowards(Game, d)

\* C39: hallways of placed rooms are stable.  In every step other than newGame:
\* the enabled flag of no hallway of a revealed room changes; the status of a
\* revealed room's hallway changes only in a successful placeRoom and only for
\* the hallway facing the newly placed cell; a hallway on an edge with both
\* cells revealed does not change; and a hidden cell's room changes only by
\* being the cell the room is placed on.
C39_HallwaysStable ==
    [][lastOp'.op # "newGame" =>
          /\ \A c \in Revealed(grid) : \A d \in Directions :
                /\ grid'[c].hallways[d].enabled = grid[c].hallways[d].enabled
                /\ grid'[c].hallways[d].status # grid[c].hallways[d].status =>
                      /\ lastOp'.op = "placeRoom"
                      /\ lastOp'.result # "rejected"
                      /\ tileTowards(c, d) = draft.position
                      /\ ~grid[draft.position].revealed
                /\ <<c, d>> \in RevealedEdges =>
                      grid'[c].hallways[d] = grid[c].hallways[d]
          /\ \A c \in Coords \ Revealed(grid) :
                grid'[c] # grid[c] =>
                   /\ lastOp'.op = "placeRoom"
                   /\ lastOp'.result # "rejected"
                   /\ c = draft.position]_vars

\* C39 witness: a room has just been placed next to a revealed room other than
\* the one the player came from, whose enabled hallway facing the new room the
\* placement has left open or blocked.
C39_Witness ==
    /\ Committed
    /\ \E d \in Directions :
          /\ <<player, d>> \in RevealedEdges
          /\ d # opposite(draft.direction)
          /\ grid[tileTowards(player, d)].hallways[opposite(d)].enabled
          /\ grid[tileTowards(player, d)].hallways[opposite(d)].status
                \in {"open", "blocked"}

\* the keys of the move, select-option, commit, refresh and debug inputs
StepKeys ==
    {"w", "ArrowUp", "e", "d", "s", "ArrowDown", "a", "q",
     "ArrowRight", "ArrowLeft", " ", "Enter", "g", "k"}

\* what running out of steps freezes
Frozen(g) == <<g.player, getResource(g.resources, "steps"), g.grid, g.currentState>>

\* C40: running out of steps is permanent.  Once steps = 0 with currentState =
\* move, no move, select-option, commit, refresh or debug add-gems / add-keys
\* input (key or click) changes the player position, steps, the grid or
\* currentState, and no step other than newGame does; and draft state is never
\* entered or held with steps = 0.
C40_OutOfStepsPermanent ==
    [][/\ (steps = 0 /\ currentState = "move") =>
             /\ \A key \in StepKeys : Frozen(handleKeydown(Game, key)) = Frozen(Game)
             /\ \A d \in Directions :
                   Frozen(handleClick(Game, tileTowards(player, d))) = Frozen(Game)
             /\ lastOp'.op # "newGame" =>
                   /\ UNCHANGED <<player, grid, currentState>>
                   /\ steps' = 0
       /\ currentState = "draft" => steps >= 1
       /\ currentState' = "draft" => steps' >= 1]_vars

\* C40 witness: out of steps in move state, with the game running and an open
\* hallway to a revealed room at hand, the add-gems key was just pressed.
C40_Witness ==
    /\ steps = 0
    /\ currentState = "move"
    /\ running
    /\ lastOp.op = "addGems"
    /\ lastOp.before.steps = 0
    /\ gems >= 5
    /\ \E d \in Directions :
          /\ <<player, d>> \in RevealedEdges
          /\ grid[player].hallways[d] = [enabled |-> TRUE, status |-> "open"]

====
